---------------------------- MODULE Spec2Model ----------------------------
(***************************************************************************)
(* A model of tinydeflate::compressor (src/tinydeflate.cpp): the streaming *)
(* DEFLATE/zlib compressor, its output_stream sink and the caller that     *)
(* drives init() and compress_data().                                      *)
(*                                                                         *)
(* Every action is one whole call of the public interface.  The bodies of  *)
(* the member functions are operators over a record "s" that holds the     *)
(* compressor's fields (m_...), the sink object (s_...) and history        *)
(* variables (g_...) that only record what happened.                       *)
(*                                                                         *)
(* The window geometry is scaled down so that a model checker can drive    *)
(* the code through window wrap, full LZ code buffers and full staging     *)
(* buffers: LZ_DICT_SIZE, MAX_MATCH_LEN, LZ_CODE_BUF_SIZE, OUT_BUF_SIZE    *)
(* and the two parser thresholds (64 and 12*1024) carry smaller values     *)
(* than in the source, with the relations the code relies on kept          *)
(* (power-of-two window, MAX_MATCH_LEN - 1 <= LZ_DICT_SIZE, a staging      *)
(* buffer longer than the zlib header).  Everything else, the hash, the    *)
(* static symbol tables, the Huffman construction, the bit output, has the *)
(* source's values.                                                        *)
(***************************************************************************)
EXTENDS Integers, Sequences, FiniteSets, TLC

(***************************************************************************)
(* Constants of the class (enum at src/tinydeflate.cpp:118-122).           *)
(***************************************************************************)
\* 32768 in the source
LZ_DICT_SIZE == 16
LZ_DICT_SIZE_MASK == LZ_DICT_SIZE - 1
MIN_MATCH_LEN == 3
\* 258 in the source
MAX_MATCH_LEN == 5
LZ_HASH_BITS == 12
LZ_HASH_SIZE == 2 ^ LZ_HASH_BITS
\* 24 * 1024 in the source
LZ_CODE_BUF_SIZE == 8
\* 4096 in the source
OUT_BUF_SIZE == 4
MAX_HUFF_SYMBOLS_0 == 288
MAX_HUFF_SYMBOLS_1 == 32
MAX_HUFF_SYMBOLS_2 == 19
MAX_SUPPORTED_HUFF_CODESIZE == 32
\* the "cur_match_len >= 64" commit threshold of the parser (64 in the source)
LONG_MATCH_LEN == 5
\* the "cur_match_dist >= 12U*1024U" rejection threshold (12288 in the source)
FAR_MATCH_DIST == 3

(***************************************************************************)
(* Unsigned machine arithmetic.  The 32-bit quantities of the code (uint)  *)
(* are natural numbers here: none of them reaches 2^31 in the explored     *)
(* runs, and the model checker stops with an error on a number it cannot   *)
(* hold rather than wrap it.  The narrower types wrap as in the source.    *)
(***************************************************************************)
U16(x) == x % 65536
U8(x) == x % 256
Shl(x, n) == x * (2 ^ n)
Shr(x, n) == x \div (2 ^ n)

\* bit i of x; a negative x (an unsigned difference that wrapped) shows the
\* bits of its two's complement
Bit(x, i) == (x \div (2 ^ i)) % 2
AndNibble(a, b, j) ==
  (2 ^ (4 * j)) * (Bit(a, 4 * j) * Bit(b, 4 * j)
                   + 2 * Bit(a, 4 * j + 1) * Bit(b, 4 * j + 1)
                   + 4 * Bit(a, 4 * j + 2) * Bit(b, 4 * j + 2)
                   + 8 * Bit(a, 4 * j + 3) * Bit(b, 4 * j + 3))
\* a & b, a | b, a ^ b on the low 28 bits (b below 2^28)
BitAnd(a, b) ==
  AndNibble(a, b, 0) + AndNibble(a, b, 1) + AndNibble(a, b, 2) + AndNibble(a, b, 3)
  + AndNibble(a, b, 4) + AndNibble(a, b, 5) + AndNibble(a, b, 6)
\* a & mask for a mask 2^k - 1: the low k bits of a
AndMask(a, mask) == a % (mask + 1)
BitOr(a, b) == a + b - BitAnd(a, b)
BitXor(a, b) == a + b - 2 * BitAnd(a, b)

\* static_cast<int16>(x) < 0 for a uint16 x
Int16Negative(x) == U16(x) >= 32768

\* an array as it lies in memory: every element is a stored value, computed
\* once, not an expression evaluated at each access
Stored(array) == array @@ array

\* a value under a name: Body(value), the value computed once and before
\* Body is entered (a C local is assigned before the statements that use it)
With(value, Body(_)) == CHOOSE result \in {Body(v) : v \in {value}} : TRUE

Min(a, b) == IF a < b THEN a ELSE b
Max(a, b) == IF a > b THEN a ELSE b

(***************************************************************************)
(* The static symbol tables (src/tinydeflate.cpp:176-224), 0-based in the  *)
(* source.                                                                 *)
(***************************************************************************)
s_len_sym_tab ==
  <<
    257,258,259,260,261,262,263,264,265,265,266,266,267,267,268,268,269,269,269,269,270,270,270,270,271,271,271,271,272,272,272,272,
    273,273,273,273,273,273,273,273,274,274,274,274,274,274,274,274,275,275,275,275,275,275,275,275,276,276,276,276,276,276,276,276,
    277,277,277,277,277,277,277,277,277,277,277,277,277,277,277,277,278,278,278,278,278,278,278,278,278,278,278,278,278,278,278,278,
    279,279,279,279,279,279,279,279,279,279,279,279,279,279,279,279,280,280,280,280,280,280,280,280,280,280,280,280,280,280,280,280,
    281,281,281,281,281,281,281,281,281,281,281,281,281,281,281,281,281,281,281,281,281,281,281,281,281,281,281,281,281,281,281,281,
    282,282,282,282,282,282,282,282,282,282,282,282,282,282,282,282,282,282,282,282,282,282,282,282,282,282,282,282,282,282,282,282,
    283,283,283,283,283,283,283,283,283,283,283,283,283,283,283,283,283,283,283,283,283,283,283,283,283,283,283,283,283,283,283,283,
    284,284,284,284,284,284,284,284,284,284,284,284,284,284,284,284,284,284,284,284,284,284,284,284,284,284,284,284,284,284,284,285
  >>
s_len_sym(i) == s_len_sym_tab[i + 1]

s_len_extra_tab ==
  <<
    0,0,0,0,0,0,0,0,1,1,1,1,1,1,1,1,2,2,2,2,2,2,2,2,2,2,2,2,2,2,2,2,
    3,3,3,3,3,3,3,3,3,3,3,3,3,3,3,3,3,3,3,3,3,3,3,3,3,3,3,3,3,3,3,3,
    4,4,4,4,4,4,4,4,4,4,4,4,4,4,4,4,4,4,4,4,4,4,4,4,4,4,4,4,4,4,4,4,
    4,4,4,4,4,4,4,4,4,4,4,4,4,4,4,4,4,4,4,4,4,4,4,4,4,4,4,4,4,4,4,4,
    5,5,5,5,5,5,5,5,5,5,5,5,5,5,5,5,5,5,5,5,5,5,5,5,5,5,5,5,5,5,5,5,
    5,5,5,5,5,5,5,5,5,5,5,5,5,5,5,5,5,5,5,5,5,5,5,5,5,5,5,5,5,5,5,5,
    5,5,5,5,5,5,5,5,5,5,5,5,5,5,5,5,5,5,5,5,5,5,5,5,5,5,5,5,5,5,5,5,
    5,5,5,5,5,5,5,5,5,5,5,5,5,5,5,5,5,5,5,5,5,5,5,5,5,5,5,5,5,5,5,0
  >>
s_len_extra(i) == s_len_extra_tab[i + 1]

s_small_dist_sym_tab ==
  <<
    0,1,2,3,4,4,5,5,6,6,6,6,7,7,7,7,8,8,8,8,8,8,8,8,9,9,9,9,9,9,9,9,
    10,10,10,10,10,10,10,10,10,10,10,10,10,10,10,10,11,11,11,11,11,11,11,11,11,11,11,11,11,11,11,11,
    12,12,12,12,12,12,12,12,12,12,12,12,12,12,12,12,12,12,12,12,12,12,12,12,12,12,12,12,12,12,12,12,
    13,13,13,13,13,13,13,13,13,13,13,13,13,13,13,13,13,13,13,13,13,13,13,13,13,13,13,13,13,13,13,13,
    14,14,14,14,14,14,14,14,14,14,14,14,14,14,14,14,14,14,14,14,14,14,14,14,14,14,14,14,14,14,14,14,
    14,14,14,14,14,14,14,14,14,14,14,14,14,14,14,14,14,14,14,14,14,14,14,14,14,14,14,14,14,14,14,14,
    15,15,15,15,15,15,15,15,15,15,15,15,15,15,15,15,15,15,15,15,15,15,15,15,15,15,15,15,15,15,15,15,
    15,15,15,15,15,15,15,15,15,15,15,15,15,15,15,15,15,15,15,15,15,15,15,15,15,15,15,15,15,15,15,15,
    16,16,16,16,16,16,16,16,16,16,16,16,16,16,16,16,16,16,16,16,16,16,16,16,16,16,16,16,16,16,16,16,
    16,16,16,16,16,16,16,16,16,16,16,16,16,16,16,16,16,16,16,16,16,16,16,16,16,16,16,16,16,16,16,16,
    16,16,16,16,16,16,16,16,16,16,16,16,16,16,16,16,16,16,16,16,16,16,16,16,16,16,16,16,16,16,16,16,
    16,16,16,16,16,16,16,16,16,16,16,16,16,16,16,16,16,16,16,16,16,16,16,16,16,16,16,16,16,16,16,16,
    17,17,17,17,17,17,17,17,17,17,17,17,17,17,17,17,17,17,17,17,17,17,17,17,17,17,17,17,17,17,17,17,
    17,17,17,17,17,17,17,17,17,17,17,17,17,17,17,17,17,17,17,17,17,17,17,17,17,17,17,17,17,17,17,17,
    17,17,17,17,17,17,17,17,17,17,17,17,17,17,17,17,17,17,17,17,17,17,17,17,17,17,17,17,17,17,17,17,
    17,17,17,17,17,17,17,17,17,17,17,17,17,17,17,17,17,17,17,17,17,17,17,17,17,17,17,17,17,17,17,17
  >>
s_small_dist_sym(i) == s_small_dist_sym_tab[i + 1]

s_small_dist_extra_tab ==
  <<
    0,0,0,0,1,1,1,1,2,2,2,2,2,2,2,2,3,3,3,3,3,3,3,3,3,3,3,3,3,3,3,3,
    4,4,4,4,4,4,4,4,4,4,4,4,4,4,4,4,4,4,4,4,4,4,4,4,4,4,4,4,4,4,4,4,
    5,5,5,5,5,5,5,5,5,5,5,5,5,5,5,5,5,5,5,5,5,5,5,5,5,5,5,5,5,5,5,5,
    5,5,5,5,5,5,5,5,5,5,5,5,5,5,5,5,5,5,5,5,5,5,5,5,5,5,5,5,5,5,5,5,
    6,6,6,6,6,6,6,6,6,6,6,6,6,6,6,6,6,6,6,6,6,6,6,6,6,6,6,6,6,6,6,6,
    6,6,6,6,6,6,6,6,6,6,6,6,6,6,6,6,6,6,6,6,6,6,6,6,6,6,6,6,6,6,6,6,
    6,6,6,6,6,6,6,6,6,6,6,6,6,6,6,6,6,6,6,6,6,6,6,6,6,6,6,6,6,6,6,6,
    6,6,6,6,6,6,6,6,6,6,6,6,6,6,6,6,6,6,6,6,6,6,6,6,6,6,6,6,6,6,6,6,
    7,7,7,7,7,7,7,7,7,7,7,7,7,7,7,7,7,7,7,7,7,7,7,7,7,7,7,7,7,7,7,7,
    7,7,7,7,7,7,7,7,7,7,7,7,7,7,7,7,7,7,7,7,7,7,7,7,7,7,7,7,7,7,7,7,
    7,7,7,7,7,7,7,7,7,7,7,7,7,7,7,7,7,7,7,7,7,7,7,7,7,7,7,7,7,7,7,7,
    7,7,7,7,7,7,7,7,7,7,7,7,7,7,7,7,7,7,7,7,7,7,7,7,7,7,7,7,7,7,7,7,
    7,7,7,7,7,7,7,7,7,7,7,7,7,7,7,7,7,7,7,7,7,7,7,7,7,7,7,7,7,7,7,7,
    7,7,7,7,7,7,7,7,7,7,7,7,7,7,7,7,7,7,7,7,7,7,7,7,7,7,7,7,7,7,7,7,
    7,7,7,7,7,7,7,7,7,7,7,7,7,7,7,7,7,7,7,7,7,7,7,7,7,7,7,7,7,7,7,7,
    7,7,7,7,7,7,7,7,7,7,7,7,7,7,7,7,7,7,7,7,7,7,7,7,7,7,7,7,7,7,7,7
  >>
s_small_dist_extra(i) == s_small_dist_extra_tab[i + 1]

s_large_dist_sym_tab ==
  <<
    0,0,18,19,20,20,21,21,22,22,22,22,23,23,23,23,24,24,24,24,24,24,24,24,25,25,25,25,25,25,25,25,
    26,26,26,26,26,26,26,26,26,26,26,26,26,26,26,26,27,27,27,27,27,27,27,27,27,27,27,27,27,27,27,27,
    28,28,28,28,28,28,28,28,28,28,28,28,28,28,28,28,28,28,28,28,28,28,28,28,28,28,28,28,28,28,28,28,
    29,29,29,29,29,29,29,29,29,29,29,29,29,29,29,29,29,29,29,29,29,29,29,29,29,29,29,29,29,29,29,29
  >>
s_large_dist_sym(i) == s_large_dist_sym_tab[i + 1]

s_large_dist_extra_tab ==
  <<
    0,0,8,8,9,9,9,9,10,10,10,10,10,10,10,10,11,11,11,11,11,11,11,11,11,11,11,11,11,11,11,11,
    12,12,12,12,12,12,12,12,12,12,12,12,12,12,12,12,12,12,12,12,12,12,12,12,12,12,12,12,12,12,12,12,
    13,13,13,13,13,13,13,13,13,13,13,13,13,13,13,13,13,13,13,13,13,13,13,13,13,13,13,13,13,13,13,13,
    13,13,13,13,13,13,13,13,13,13,13,13,13,13,13,13,13,13,13,13,13,13,13,13,13,13,13,13,13,13,13,13
  >>
s_large_dist_extra(i) == s_large_dist_extra_tab[i + 1]

s_packed_code_size_syms_swizzle_tab ==
  << 16,17,18,0,8,7,9,6,10,5,11,4,12,3,13,2,14,1,15 >>
s_packed_code_size_syms_swizzle(i) == s_packed_code_size_syms_swizzle_tab[i + 1]

(***************************************************************************)
(* adler32 (src/tinydeflate.cpp:228-240).  ptr is the sequence of bytes    *)
(* read, adler the running checksum.  The eight-fold unrolled inner loop   *)
(* adds the bytes in order, as the byte loop after it does.  A checksum    *)
(* is held as its two 16-bit halves [hi, lo], the uint32 hi * 2^16 + lo.   *)
(***************************************************************************)
RECURSIVE AdlerAdd(_, _, _)
AdlerAdd(bytes, s1, s2) ==
  IF Len(bytes) = 0 THEN << s1, s2 >>
  ELSE LET t1 == s1 + Head(bytes)
       IN  AdlerAdd(Tail(bytes), t1, s2 + t1)

RECURSIVE AdlerBlocks(_, _, _, _)
AdlerBlocks(ptr, block_len, s1, s2) ==
  IF Len(ptr) = 0 THEN [hi |-> U16(s2 + Shr(s1, 16)), lo |-> U16(s1)]
  ELSE LET r == AdlerAdd(SubSeq(ptr, 1, block_len), s1, s2)
       IN  AdlerBlocks(SubSeq(ptr, block_len + 1, Len(ptr)), 5552,
                       r[1] % 65521, r[2] % 65521)

adler32(ptr, adler) ==
  AdlerBlocks(ptr, Len(ptr) % 5552, adler.lo, adler.hi)

(***************************************************************************)
(* radix_sort_syms (src/tinydeflate.cpp:250-265).  syms is a 0-based array *)
(* of [m_key, m_sym_index]; one pass places element i at offsets[digit]++, *)
(* that is after every element with a smaller digit and every earlier      *)
(* element with the same digit.                                            *)
(***************************************************************************)
RadixDigit(key, pass_shift) == AndMask(Shr(key, pass_shift), 255)

RadixPass(syms, num_syms, pass_shift) ==
  LET dig(i) == RadixDigit(syms[i].m_key, pass_shift)
      dst(i) == Cardinality({j \in 0..(num_syms - 1) : dig(j) < dig(i)})
                + Cardinality({j \in 0..(i - 1) : dig(j) = dig(i)})
  IN  Stored([p \in 0..(num_syms - 1) |->
                syms[CHOOSE i \in 0..(num_syms - 1) : dst(i) = p]])

radix_sort_syms(num_syms, syms0) ==
  LET \* hist[256]: the number of keys whose high byte is 0
      hist256 == Cardinality({i \in 0..(num_syms - 1) :
                                RadixDigit(syms0[i].m_key, 8) = 0})
      total_passes == IF num_syms = hist256 THEN 1 ELSE 2
      pass0 == RadixPass(syms0, num_syms, 0)
  IN  IF total_passes = 1 THEN pass0 ELSE RadixPass(pass0, num_syms, 8)

(***************************************************************************)
(* calculate_minimum_redundancy (src/tinydeflate.cpp:268-286), on the      *)
(* array A of the m_key fields (0-based), in its three phases.             *)
(***************************************************************************)
RECURSIVE MinRedPhase1(_, _, _, _, _)
MinRedPhase1(A, n, root, leaf, next) ==
  IF ~(next < n - 1) THEN A
  ELSE
    LET takeRoot1 == leaf >= n \/ A[root] < A[leaf]
        A1 == IF takeRoot1
              THEN [A EXCEPT ![next] = A[root], ![root] = U16(next)]
              ELSE [A EXCEPT ![next] = A[leaf]]
        root1 == IF takeRoot1 THEN root + 1 ELSE root
        leaf1 == IF takeRoot1 THEN leaf ELSE leaf + 1
        takeRoot2 == leaf1 >= n \/ (root1 < next /\ A1[root1] < A1[leaf1])
        A2 == IF takeRoot2
              THEN [A1 EXCEPT ![next] = U16(A1[next] + A1[root1]),
                              ![root1] = U16(next)]
              ELSE [A1 EXCEPT ![next] = U16(A1[next] + A1[leaf1])]
        root2 == IF takeRoot2 THEN root1 + 1 ELSE root1
        leaf2 == IF takeRoot2 THEN leaf1 ELSE leaf1 + 1
    IN  MinRedPhase1(A2, n, root2, leaf2, next + 1)

RECURSIVE MinRedPhase2(_, _)
MinRedPhase2(A, next) ==
  IF next < 0 THEN A
  ELSE MinRedPhase2([A EXCEPT ![next] = U16(A[A[next]] + 1)], next - 1)

RECURSIVE MinRedSkipRoots(_, _, _, _)
MinRedSkipRoots(A, root, dpth, used) ==
  IF root >= 0 /\ A[root] = dpth
  THEN MinRedSkipRoots(A, root - 1, dpth, used + 1)
  ELSE << root, used >>

RECURSIVE MinRedAssign(_, _, _, _, _)
MinRedAssign(A, next, avbl, used, dpth) ==
  IF avbl > used
  THEN MinRedAssign([A EXCEPT ![next] = U16(dpth)], next - 1, avbl - 1, used, dpth)
  ELSE << A, next >>

RECURSIVE MinRedPhase3(_, _, _, _, _)
MinRedPhase3(A, avbl, dpth, root, next) ==
  IF ~(avbl > 0) THEN A
  ELSE With(MinRedSkipRoots(A, root, dpth, 0), LAMBDA ru :
       With(MinRedAssign(A, next, avbl, ru[2], dpth), LAMBDA an :
         MinRedPhase3(an[1], 2 * ru[2], dpth + 1, ru[1], an[2])))

calculate_minimum_redundancy(A, n) ==
  IF n = 0 THEN A
  ELSE IF n = 1 THEN [A EXCEPT ![0] = 1]
  ELSE MinRedPhase3(
         MinRedPhase2([MinRedPhase1([A EXCEPT ![0] = U16(A[0] + A[1])], n, 0, 2, 1)
                         EXCEPT ![n - 2] = 0],
                      n - 3),
         1, 0, n - 2, n - 1)

(***************************************************************************)
(* huffman_enforce_max_code_size (src/tinydeflate.cpp:290-301).            *)
(* pNum_codes is the array 0..MAX_SUPPORTED_HUFF_CODESIZE of code counts   *)
(* per length.                                                             *)
(***************************************************************************)
RECURSIVE SumCodes(_, _, _)
SumCodes(pNum_codes, i, max_code_size) ==
  IF i <= 0 THEN 0
  ELSE Shl(pNum_codes[i], max_code_size - i)
       + SumCodes(pNum_codes, i - 1, max_code_size)

RECURSIVE EnforceStep(_, _)
EnforceStep(pNum_codes, i) ==
  IF i <= 0 THEN pNum_codes
  ELSE IF pNum_codes[i] # 0
       THEN [pNum_codes EXCEPT ![i] = @ - 1, ![i + 1] = @ + 2]
       ELSE EnforceStep(pNum_codes, i - 1)

RECURSIVE EnforceLoop(_, _, _)
EnforceLoop(pNum_codes, total, max_code_size) ==
  IF total = 2 ^ max_code_size THEN pNum_codes
  ELSE EnforceLoop(
         EnforceStep([pNum_codes EXCEPT ![max_code_size] = @ - 1],
                     max_code_size - 1),
         total - 1, max_code_size)

RECURSIVE SumFrom(_, _)
SumFrom(pNum_codes, i) ==
  IF i > MAX_SUPPORTED_HUFF_CODESIZE THEN 0
  ELSE pNum_codes[i] + SumFrom(pNum_codes, i + 1)

\* a variant of huffman_enforce_max_code_size that leaves the counts as they are
huffman_enforce_nothing(pNum_codes, code_list_len, max_code_size) == pNum_codes

huffman_enforce_max_code_size(pNum_codes, code_list_len, max_code_size) ==
  IF code_list_len <= 1 THEN pNum_codes
  ELSE With([pNum_codes EXCEPT
               ![max_code_size] = @ + SumFrom(pNum_codes, max_code_size + 1)],
            LAMBDA folded :
              EnforceLoop(folded, SumCodes(folded, max_code_size, max_code_size),
                          max_code_size))

(***************************************************************************)
(* compressor::optimize_huffman_table (src/tinydeflate.cpp:303-331).       *)
(* pSym_count is m_huff_count[table_num] (0-based, table_len entries); the *)
(* result holds m_huff_code_sizes[table_num] and m_huff_codes[table_num].  *)
(***************************************************************************)
UsedSyms(pSym_count, table_len) ==
  LET used == {i \in 0..(table_len - 1) : pSym_count[i] # 0}
      rank(i) == Cardinality({j \in used : j < i})
  IN  Stored([k \in 0..(Cardinality(used) - 1) |->
                LET i == CHOOSE i \in used : rank(i) = k
                IN  [m_key |-> U16(pSym_count[i]), m_sym_index |-> i]])

\* lines 318-319: walk the lengths upward and the sorted symbols downward
RECURSIVE AssignCodeSizes(_, _, _, _, _, _, _)
AssignCodeSizes(sizes, pSyms, num_codes, i, l, j, code_size_limit) ==
  IF i > code_size_limit THEN sizes
  ELSE IF l > 0
       THEN AssignCodeSizes([sizes EXCEPT ![pSyms[j - 1].m_sym_index] = U8(i)],
                            pSyms, num_codes, i, l - 1, j - 1, code_size_limit)
       ELSE IF i + 1 > code_size_limit THEN sizes
            ELSE AssignCodeSizes(sizes, pSyms, num_codes, i + 1,
                                 num_codes[i + 1], j, code_size_limit)

\* line 322: next_code[i] = j = ((j + num_codes[i - 1]) << 1), next_code[1] = 0
RECURSIVE NextCode(_, _)
NextCode(num_codes, i) ==
  IF i <= 1 THEN 0
  ELSE Shl(NextCode(num_codes, i - 1) + num_codes[i - 1], 1)

\* a variant of ReverseBits that leaves the bits of code in place
ReverseBitsNot(code, code_size) == code

\* line 328: the low code_size bits of code, reversed
RECURSIVE ReverseBits(_, _)
ReverseBits(code, code_size) ==
  IF code_size = 0 THEN 0
  ELSE (code % 2) * (2 ^ (code_size - 1)) + ReverseBits(code \div 2, code_size - 1)

optimize_huffman_table(pSym_count, table_len, code_size_limit) ==
  With(UsedSyms(pSym_count, table_len), LAMBDA syms0 :
  With(Cardinality(DOMAIN syms0), LAMBDA num_used_syms :
  With(radix_sort_syms(num_used_syms, syms0), LAMBDA sorted :
  With(calculate_minimum_redundancy(
         Stored([i \in 0..(num_used_syms - 1) |-> sorted[i].m_key]), num_used_syms),
       LAMBDA depth :
  With(huffman_enforce_max_code_size(
         Stored([d \in 0..MAX_SUPPORTED_HUFF_CODESIZE |->
                   Cardinality({i \in 0..(num_used_syms - 1) : depth[i] = d})]),
         num_used_syms, code_size_limit),
       LAMBDA num_codes :
  With(Stored(AssignCodeSizes([i \in 0..(table_len - 1) |-> 0], sorted, num_codes,
                              1, num_codes[1], num_used_syms, code_size_limit)),
       LAMBDA sizes :
    [sizes |-> sizes,
     \* lines 324-330: codes are handed out in symbol order within a length
     codes |-> Stored([i \in 0..(table_len - 1) |->
                 IF sizes[i] = 0 THEN 0
                 ELSE U16(ReverseBits(
                        NextCode(num_codes, sizes[i])
                          + Cardinality({k \in 0..(i - 1) : sizes[k] = sizes[i]}),
                        sizes[i]))]),
     num_codes |-> num_codes]))))))
(***************************************************************************)
(* Input alphabet and sizes of the explored runs.                          *)
(***************************************************************************)
\* byte values fed by the caller: 0 and 16 hash alike in the first byte of
\* a triplet (<< 8 drops bit 4 under the 12-bit mask), so hash chains hold
\* both equal and different triplets
Byte == {0, 16}
\* bytes fed to one compressor object in a run of the long-input runs
MaxInput == 6
\* bytes fed to one compressor object in a run of the life-cycle runs
MaxLifeInput == 6
\* bytes in one compress_data call
MaxChunk == 2
\* init() calls on one compressor object in the life-cycle runs
MaxInits == 2

(***************************************************************************)
(* The rolling hash of a triplet (src/tinydeflate.cpp:531,538,553).        *)
(***************************************************************************)
HashStart(d0, d1) == BitXor(Shl(d0, 4), d1)
HashRoll(hash, c) == AndMask(BitXor(Shl(hash, 4), c), LZ_HASH_SIZE - 1)
HashTriplet(d0, d1, c) ==
  AndMask(BitXor(BitXor(Shl(d0, 8), Shl(d1, 4)), c), LZ_HASH_SIZE - 1)

\* the entries of m_hash the explored inputs can address
HashDomain == {HashTriplet(a, b, c) : a \in Byte, b \in Byte, c \in Byte}

(***************************************************************************)
(* Array index sets (class fields at src/tinydeflate.cpp:131-138).         *)
(***************************************************************************)
DictIndex == 0..(LZ_DICT_SIZE + MAX_MATCH_LEN - 2)
NextIndex == 0..(LZ_DICT_SIZE - 1)
LzIndex == 0..(LZ_CODE_BUF_SIZE - 1)
OutIndex == 0..(OUT_BUF_SIZE - 1)

(***************************************************************************)
(* output_stream::put_buf (src/tinydeflate.cpp:50-55), the caller's sink.  *)
(* The sink of the model accepts every call but call number s_failAt       *)
(* (0: it never fails); a rejected call stores nothing.                    *)
(***************************************************************************)
put_buf(s, pBuf) ==
  LET ok == (s.s_calls + 1) # s.s_failAt
  IN  [s EXCEPT !.s_calls = @ + 1,
                !.s_buf = IF ok THEN @ \o pBuf ELSE @,
                !.s_lens = Append(@, Len(pBuf)),
                !.s_failed = @ \/ ~ok,
                !.s_put_ret = ok]

\* a variant of flush_output_buffer that hands the sink one byte less
flush_output_buffer_short(s) ==
  LET call == s.m_all_writes_succeeded /\ s.m_pOutput_buf > 0
      s1 == IF call
            THEN put_buf(s, [i \in 1..(s.m_pOutput_buf - 1) |-> s.m_output_buf[i - 1]])
            ELSE s
  IN  [s1 EXCEPT !.m_all_writes_succeeded = IF call THEN s1.s_put_ret ELSE @,
                 !.m_pOutput_buf = 0]

\* a variant of flush_output_buffer that does not test
\* m_all_writes_succeeded
flush_output_buffer_untested(s) ==
  LET call == s.m_pOutput_buf > 0
      s1 == IF call
            THEN put_buf(s, [i \in 1..s.m_pOutput_buf |-> s.m_output_buf[i - 1]])
            ELSE s
  IN  [s1 EXCEPT !.m_all_writes_succeeded = IF call THEN s1.s_put_ret ELSE @,
                 !.m_pOutput_buf = 0]

(***************************************************************************)
(* compressor::flush_output_buffer (src/tinydeflate.cpp:333-338).          *)
(***************************************************************************)
flush_output_buffer(s) ==
  LET call == s.m_all_writes_succeeded /\ s.m_pOutput_buf > 0
      s1 == IF call
            THEN put_buf(s, [i \in 1..s.m_pOutput_buf |-> s.m_output_buf[i - 1]])
            ELSE s
  IN  [s1 EXCEPT !.m_all_writes_succeeded = IF call THEN s1.s_put_ret ELSE @,
                 !.m_pOutput_buf = 0]

(***************************************************************************)
(* TDEFL_PUT_BITS (src/tinydeflate.cpp:340-341).                           *)
(***************************************************************************)
RECURSIVE PutBitsSpill(_)
PutBitsSpill(s) ==
  IF s.m_bits_in >= 8
  THEN LET s1 == [s EXCEPT !.m_output_buf[s.m_pOutput_buf] = U8(s.m_bit_buffer),
                           !.m_pOutput_buf = @ + 1,
                           !.g_emitted = Append(@, U8(s.m_bit_buffer))]
           s2 == IF s1.m_pOutput_buf = OUT_BUF_SIZE
                 THEN flush_output_buffer(s1) ELSE s1
       IN  PutBitsSpill([s2 EXCEPT !.m_bit_buffer = Shr(@, 8),
                                   !.m_bits_in = @ - 8])
  ELSE s

TDEFL_PUT_BITS(s, b, l) ==
  PutBitsSpill([s EXCEPT !.m_bit_buffer = BitOr(@, Shl(b, s.m_bits_in)),
                         !.m_bits_in = @ + l,
                         !.g_bits = @ + l,
                         !.g_assert = @ \/ ~(b <= (2 ^ l) - 1)])

\* a run of TDEFL_PUT_BITS calls, in order; each element of calls is
\* << bits, len >>.  w = [s, k] holds the state and the index of the next
\* call; n calls are made from w, split in halves to keep the evaluation
\* shallow
RECURSIVE PutBitsRun(_, _, _)
PutBitsRun(w, calls, n) ==
  IF n = 0 \/ w.k > Len(calls) THEN w
  ELSE IF n = 1
       THEN [s |-> TDEFL_PUT_BITS(w.s, calls[w.k][1], calls[w.k][2]), k |-> w.k + 1]
       ELSE PutBitsRun(PutBitsRun(w, calls, n \div 2), calls, n - (n \div 2))

PutBitsAll(s, calls) == PutBitsRun([s |-> s, k |-> 1], calls, Len(calls)).s
(***************************************************************************)
(* TDEFL_RLE_PREV_CODE_SIZE and TDEFL_RLE_ZERO_CODE_SIZE                   *)
(* (src/tinydeflate.cpp:343-358) on the packing state                      *)
(* r = [rle_z_count, rle_repeat_count, packed_code_sizes, count], where    *)
(* count is m_huff_count[2].                                               *)
(***************************************************************************)
Repeat(v, n) == [i \in 1..n |-> v]

TDEFL_RLE_PREV_CODE_SIZE(r, prev_code_size) ==
  IF r.rle_repeat_count = 0 THEN r
  ELSE IF r.rle_repeat_count < 3
       THEN [r EXCEPT !.count[prev_code_size] = U16(@ + r.rle_repeat_count),
                      !.packed_code_sizes = @ \o Repeat(prev_code_size, r.rle_repeat_count),
                      !.rle_repeat_count = 0]
       ELSE [r EXCEPT !.count[16] = U16(@ + 1),
                      !.packed_code_sizes = @ \o << 16, U8(r.rle_repeat_count - 3) >>,
                      !.rle_repeat_count = 0]

TDEFL_RLE_ZERO_CODE_SIZE(r) ==
  IF r.rle_z_count = 0 THEN r
  ELSE IF r.rle_z_count < 3
       THEN [r EXCEPT !.count[0] = U16(@ + r.rle_z_count),
                      !.packed_code_sizes = @ \o Repeat(0, r.rle_z_count),
                      !.rle_z_count = 0]
       ELSE IF r.rle_z_count <= 10
            THEN [r EXCEPT !.count[17] = U16(@ + 1),
                           !.packed_code_sizes = @ \o << 17, U8(r.rle_z_count - 3) >>,
                           !.rle_z_count = 0]
            ELSE [r EXCEPT !.count[18] = U16(@ + 1),
                           !.packed_code_sizes = @ \o << 18, U8(r.rle_z_count - 11) >>,
                           !.rle_z_count = 0]

\* a variant of RlePackStep that lets a repeat run grow to 7
RlePackStepSeven(r, code_sizes_to_pack) ==
  LET code_size == code_sizes_to_pack[r.i + 1]
      prev_code_size == r.prev_code_size
      r3 ==
        IF code_size = 0
        THEN LET r1 == TDEFL_RLE_PREV_CODE_SIZE(r, prev_code_size)
                 r2 == [r1 EXCEPT !.rle_z_count = @ + 1]
             IN  IF r2.rle_z_count = 138 THEN TDEFL_RLE_ZERO_CODE_SIZE(r2) ELSE r2
        ELSE LET r1 == TDEFL_RLE_ZERO_CODE_SIZE(r)
             IN  IF code_size # prev_code_size
                 THEN LET r2 == TDEFL_RLE_PREV_CODE_SIZE(r1, prev_code_size)
                      IN  [r2 EXCEPT !.count[code_size] = U16(@ + 1),
                                     !.packed_code_sizes = Append(@, code_size)]
                 ELSE LET r2 == [r1 EXCEPT !.rle_repeat_count = @ + 1]
                      IN  IF r2.rle_repeat_count = 7
                          THEN TDEFL_RLE_PREV_CODE_SIZE(r2, prev_code_size) ELSE r2
  IN  [r3 EXCEPT !.prev_code_size = code_size, !.i = @ + 1]

\* the loop body at src/tinydeflate.cpp:373-395 for code size number r.i
\* (0-based); r.prev_code_size is the one before it
RlePackStep(r, code_sizes_to_pack) ==
  LET code_size == code_sizes_to_pack[r.i + 1]
      prev_code_size == r.prev_code_size
      r3 ==
        IF code_size = 0
        THEN LET r1 == TDEFL_RLE_PREV_CODE_SIZE(r, prev_code_size)
                 r2 == [r1 EXCEPT !.rle_z_count = @ + 1]
             IN  IF r2.rle_z_count = 138 THEN TDEFL_RLE_ZERO_CODE_SIZE(r2) ELSE r2
        ELSE LET r1 == TDEFL_RLE_ZERO_CODE_SIZE(r)
             IN  IF code_size # prev_code_size
                 THEN LET r2 == TDEFL_RLE_PREV_CODE_SIZE(r1, prev_code_size)
                      IN  [r2 EXCEPT !.count[code_size] = U16(@ + 1),
                                     !.packed_code_sizes = Append(@, code_size)]
                 ELSE LET r2 == [r1 EXCEPT !.rle_repeat_count = @ + 1]
                      IN  IF r2.rle_repeat_count = 6
                          THEN TDEFL_RLE_PREV_CODE_SIZE(r2, prev_code_size) ELSE r2
  IN  [r3 EXCEPT !.prev_code_size = code_size, !.i = @ + 1]

\* n rounds of the loop at src/tinydeflate.cpp:371-395 from state r (split
\* in halves to keep the evaluation shallow)
RECURSIVE RlePackLoop(_, _, _, _)
RlePackLoop(r, code_sizes_to_pack, total_code_sizes_to_pack, n) ==
  IF n = 0 \/ ~(r.i < total_code_sizes_to_pack) THEN r
  ELSE IF n = 1 THEN RlePackStep(r, code_sizes_to_pack)
       ELSE RlePackLoop(
              RlePackLoop(r, code_sizes_to_pack, total_code_sizes_to_pack, n \div 2),
              code_sizes_to_pack, total_code_sizes_to_pack, n - (n \div 2))

\* src/tinydeflate.cpp:367-396: code_sizes_to_pack is the sequence of the
\* num_lit_codes literal/length sizes followed by the num_dist_codes
\* distance sizes
RlePack(code_sizes_to_pack, total_code_sizes_to_pack) ==
  With(RlePackLoop([rle_z_count |-> 0, rle_repeat_count |-> 0,
                    packed_code_sizes |-> << >>,
                    count |-> [i \in 0..(MAX_HUFF_SYMBOLS_2 - 1) |-> 0],
                    prev_code_size |-> 255, i |-> 0],
                   code_sizes_to_pack, total_code_sizes_to_pack,
                   total_code_sizes_to_pack),
       LAMBDA r :
         IF r.rle_repeat_count # 0
         THEN TDEFL_RLE_PREV_CODE_SIZE(r, r.prev_code_size)
         ELSE TDEFL_RLE_ZERO_CODE_SIZE(r))

\* src/tinydeflate.cpp:407-412: the TDEFL_PUT_BITS calls for the packed
\* sizes; w = [idx, bits] holds packed_code_sizes_index (0-based) and the
\* calls made so far, n bounds the rounds made from w
RECURSIVE PackedBitsLoop(_, _, _, _)
PackedBitsLoop(w, packed_code_sizes, t2, n) ==
  IF n = 0 \/ ~(w.idx < Len(packed_code_sizes)) THEN w
  ELSE IF n = 1
       THEN LET code == packed_code_sizes[w.idx + 1]
            IN  IF code >= 16
                THEN [idx |-> w.idx + 2,
                      bits |-> w.bits \o
                        << << t2.codes[code], t2.sizes[code] >>,
                           << packed_code_sizes[w.idx + 2],
                              (<< 2, 3, 7 >>)[code - 16 + 1] >> >>]
                ELSE [idx |-> w.idx + 1,
                      bits |-> Append(w.bits, << t2.codes[code], t2.sizes[code] >>)]
       ELSE PackedBitsLoop(PackedBitsLoop(w, packed_code_sizes, t2, n \div 2),
                           packed_code_sizes, t2, n - (n \div 2))

PackedBits(packed_code_sizes, t2) ==
  PackedBitsLoop([idx |-> 0, bits |-> << >>], packed_code_sizes, t2,
                 Len(packed_code_sizes)).bits

\* the largest n in lo+1..hi with sizes[n - 1] # 0, else lo
\* (the loops at src/tinydeflate.cpp:364-365)
NumCodes(sizes, hi, lo) ==
  LET used == {n \in (lo + 1)..hi : sizes[n - 1] # 0}
  IN  IF used = {} THEN lo ELSE CHOOSE n \in used : \A m \in used : m <= n

(***************************************************************************)
(* compressor::start_dynamic_block (src/tinydeflate.cpp:360-413).          *)
(* count0 and count1 are m_huff_count[0] and m_huff_count[1]; the result   *)
(* holds the tables built and the TDEFL_PUT_BITS calls made, in order.     *)
(***************************************************************************)
start_dynamic_block(count0, count1, last_block) ==
  With(optimize_huffman_table(count0, MAX_HUFF_SYMBOLS_0, 15), LAMBDA t0 :
  With(optimize_huffman_table(count1, MAX_HUFF_SYMBOLS_1, 15), LAMBDA t1 :
  With(NumCodes(t0.sizes, 286, 257), LAMBDA num_lit_codes :
  With(NumCodes(t1.sizes, 30, 1), LAMBDA num_dist_codes :
  With(Stored([i \in 1..(num_lit_codes + num_dist_codes) |->
                 IF i <= num_lit_codes THEN t0.sizes[i - 1]
                 ELSE t1.sizes[i - num_lit_codes - 1]]),
       LAMBDA code_sizes_to_pack :
  With(RlePack(code_sizes_to_pack, num_lit_codes + num_dist_codes), LAMBDA r :
  With(optimize_huffman_table(r.count, MAX_HUFF_SYMBOLS_2, 7), LAMBDA t2 :
  \* lines 403-404: one more than the last n in 0..18 whose swizzled symbol has
  \* a code, at least 4
  With(Max(4, NumCodes([n \in 0..18 |->
                         t2.sizes[s_packed_code_size_syms_swizzle(n)]], 19, 0)),
       LAMBDA num_bit_lengths :
    [t0 |-> t0, t1 |-> t1, t2 |-> t2,
     code_sizes_to_pack |-> code_sizes_to_pack,
     packed_code_sizes |-> r.packed_code_sizes,
     count2 |-> r.count,
     bits |->
       << << (IF last_block THEN 1 ELSE 0), 1 >>, << 2, 2 >>,
          << num_lit_codes - 257, 5 >>, << num_dist_codes - 1, 5 >>,
          << num_bit_lengths - 4, 4 >> >>
       \o [i \in 1..num_bit_lengths |->
             << t2.sizes[s_packed_code_size_syms_swizzle(i - 1)], 3 >>]
       \o PackedBits(r.packed_code_sizes, t2)]))))))))

(***************************************************************************)
(* compressor::flush_block (src/tinydeflate.cpp:415-473).                  *)
(***************************************************************************)
\* the walk over the LZ code buffer (lines 422-460), the same in both
\* passes: the tokens found, a literal as << 0, lit >>, a match as
\* << 1, match_len, match_dist >> with the stored (biased) values
RECURSIVE LzWalkLoop(_, _, _)
LzWalkLoop(w, buf, end) ==
  IF ~(w.p < end) THEN w
  ELSE LET fl == IF w.flags = 1 THEN BitOr(buf[w.p], 256) ELSE w.flags
           q == IF w.flags = 1 THEN w.p + 1 ELSE w.p
       IN  IF fl % 2 = 1
           THEN LzWalkLoop(
                  [p |-> q + 3, flags |-> Shr(fl, 1),
                   toks |-> Append(w.toks,
                     << 1, buf[q], BitOr(buf[q + 1], Shl(buf[q + 2], 8)) >>)],
                  buf, end)
           ELSE LzWalkLoop(
                  [p |-> q + 1, flags |-> Shr(fl, 1),
                   toks |-> Append(w.toks, << 0, buf[q] >>)],
                  buf, end)

LzWalk(buf, end) == LzWalkLoop([p |-> 0, flags |-> 1, toks |-> << >>], buf, end).toks

DistSym(match_dist) ==
  IF match_dist < 512 THEN s_small_dist_sym(match_dist)
  ELSE s_large_dist_sym(Shr(match_dist, 8))
DistExtra(match_dist) ==
  IF match_dist < 512 THEN s_small_dist_extra(match_dist)
  ELSE s_large_dist_extra(Shr(match_dist, 8))

\* a variant of LitLenCount that does not count symbol 256
LitLenCountTokens(toks) ==
  Stored([sym \in 0..(MAX_HUFF_SYMBOLS_0 - 1) |->
     U16(Cardinality({k \in 1..Len(toks) :
                        IF toks[k][1] = 1 THEN s_len_sym(toks[k][2]) = sym
                        ELSE toks[k][2] = sym}))])

\* pass 0 (lines 429-436, 455-456, 464): m_huff_count[0] and m_huff_count[1]
LitLenCount(toks) ==
  Stored([sym \in 0..(MAX_HUFF_SYMBOLS_0 - 1) |->
     U16(Cardinality({k \in 1..Len(toks) :
                        IF toks[k][1] = 1 THEN s_len_sym(toks[k][2]) = sym
                        ELSE toks[k][2] = sym})
         + (IF sym = 256 THEN 1 ELSE 0))])
DistCount(toks) ==
  Stored([sym \in 0..(MAX_HUFF_SYMBOLS_1 - 1) |->
     U16(Cardinality({k \in 1..Len(toks) :
                        toks[k][1] = 1 /\ DistSym(toks[k][3]) = sym}))])

\* pass 1 (lines 439-449, 458): the TDEFL_PUT_BITS calls of one token
TokenBits(tok, t0, t1) ==
  IF tok[1] = 1
  THEN LET match_len == tok[2]
           match_dist == tok[3]
           sym == DistSym(match_dist)
           num_extra_bits == DistExtra(match_dist)
       IN  << << t0.codes[s_len_sym(match_len)], t0.sizes[s_len_sym(match_len)] >>,
              << AndMask(match_len, (2 ^ s_len_extra(match_len)) - 1),
                 s_len_extra(match_len) >>,
              << t1.codes[sym], t1.sizes[sym] >>,
              << AndMask(match_dist, (2 ^ num_extra_bits) - 1), num_extra_bits >> >>
  ELSE << << t0.codes[tok[2]], t0.sizes[tok[2]] >> >>

\* the calls of tokens lo..hi, in order
RECURSIVE TokensBits(_, _, _, _, _)
TokensBits(toks, t0, t1, lo, hi) ==
  IF lo > hi THEN << >>
  ELSE IF lo = hi THEN TokenBits(toks[lo], t0, t1)
  ELSE TokensBits(toks, t0, t1, lo, (lo + hi) \div 2)
       \o TokensBits(toks, t0, t1, ((lo + hi) \div 2) + 1, hi)

flush_block(s, last_block) ==
  With([s.m_lz_code_buf EXCEPT ![s.m_pLZ_flags] = U8(Shr(@, s.m_num_flags_left))],
       LAMBDA buf :
  With(LzWalk(buf, s.m_pLZ_code_buf - (IF s.m_num_flags_left = 8 THEN 1 ELSE 0)),
       LAMBDA toks :
  With(start_dynamic_block(LitLenCount(toks), DistCount(toks), last_block),
       LAMBDA blk :
  With(PutBitsAll(PutBitsAll([s EXCEPT !.m_lz_code_buf = buf], blk.bits),
                  TokensBits(toks, blk.t0, blk.t1, 1, Len(toks))),
       LAMBDA s2 :
  With(TDEFL_PUT_BITS(s2, blk.t0.codes[256], blk.t0.sizes[256]), LAMBDA s3 :
  With(IF last_block /\ AndMask(s3.m_bits_in, 7) # 0
       THEN TDEFL_PUT_BITS(s3, 0, 8 - s3.m_bits_in) ELSE s3,
       LAMBDA s4 :
    [s4 EXCEPT !.m_pLZ_code_buf = 1, !.m_pLZ_flags = 0, !.m_num_flags_left = 8,
               !.g_blocks = Append(@, [last_block |-> last_block,
                                       first_bit |-> s.g_bits,
                                       eob_bit |-> s3.g_bits,
                                       tokens |-> Len(toks)])]))))))
(***************************************************************************)
(* compressor::record_literal and compressor::record_match                 *)
(* (src/tinydeflate.cpp:475-489).  m_pLZ_code_buf and m_pLZ_flags are      *)
(* indices into m_lz_code_buf.                                             *)
(***************************************************************************)
\* a variant of RecordFlag that emits a block only when the buffer is full
RecordFlagLate(s, top_bit) ==
  With([s EXCEPT !.m_lz_code_buf[s.m_pLZ_flags] = U8(BitOr(Shr(@, 1), top_bit)),
                 !.m_num_flags_left = @ - 1],
       LAMBDA s1 :
  With(IF s1.m_num_flags_left = 0
       THEN [s1 EXCEPT !.m_num_flags_left = 8,
                       !.m_pLZ_flags = s1.m_pLZ_code_buf,
                       !.m_pLZ_code_buf = @ + 1,
                       !.g_oob = @ \/ s1.m_pLZ_code_buf \notin LzIndex,
                       !.g_lz_top = Max(@, s1.m_pLZ_code_buf)]
       ELSE s1,
       LAMBDA s2 :
  With(IF s2.m_pLZ_code_buf > LZ_CODE_BUF_SIZE - 1
       THEN flush_block(s2, FALSE) ELSE s2,
       LAMBDA s3 :
    [s3 EXCEPT !.g_lz_free = Min(@, LZ_CODE_BUF_SIZE - s3.m_pLZ_code_buf)])))

\* lines 478-479 and 487-488: shift the flag byte, open a new flag slot
\* after eight tokens, emit a block when fewer than 4 bytes are left
RecordFlag(s, top_bit) ==
  With([s EXCEPT !.m_lz_code_buf[s.m_pLZ_flags] = U8(BitOr(Shr(@, 1), top_bit)),
                 !.m_num_flags_left = @ - 1],
       LAMBDA s1 :
  With(IF s1.m_num_flags_left = 0
       THEN [s1 EXCEPT !.m_num_flags_left = 8,
                       !.m_pLZ_flags = s1.m_pLZ_code_buf,
                       !.m_pLZ_code_buf = @ + 1,
                       !.g_oob = @ \/ s1.m_pLZ_code_buf \notin LzIndex,
                       !.g_lz_top = Max(@, s1.m_pLZ_code_buf)]
       ELSE s1,
       LAMBDA s2 :
  With(IF s2.m_pLZ_code_buf > LZ_CODE_BUF_SIZE - 4
       THEN flush_block(s2, FALSE) ELSE s2,
       LAMBDA s3 :
    [s3 EXCEPT !.g_lz_free = Min(@, LZ_CODE_BUF_SIZE - s3.m_pLZ_code_buf)])))

record_literal(s, lit) ==
  RecordFlag([s EXCEPT !.m_lz_code_buf[s.m_pLZ_code_buf] = lit,
                       !.m_pLZ_code_buf = @ + 1,
                       !.g_oob = @ \/ s.m_pLZ_code_buf \notin LzIndex,
                       !.g_lz_top = Max(@, s.m_pLZ_code_buf),
                       !.g_tokens = Append(@, << 0, lit >>)],
             0)

record_match(s, match_len, match_dist) ==
  LET p == s.m_pLZ_code_buf
      d == match_dist - 1
  IN  RecordFlag([s EXCEPT !.m_lz_code_buf[p] = U8(match_len - MIN_MATCH_LEN),
                           !.m_lz_code_buf[p + 1] = U8(AndMask(d, 255)),
                           !.m_lz_code_buf[p + 2] = U8(Shr(d, 8)),
                           !.m_pLZ_code_buf = @ + 3,
                           !.g_oob = @ \/ (p + 2) \notin LzIndex,
                           !.g_lz_top = Max(@, p + 2),
                           !.g_assert = @ \/ ~(match_len >= MIN_MATCH_LEN
                                               /\ match_dist >= 1
                                               /\ match_dist <= LZ_DICT_SIZE),
                           !.g_tokens = Append(@, << match_len, match_dist >>)],
                 128)

(***************************************************************************)
(* compressor::find_match (src/tinydeflate.cpp:491-517).  The search state *)
(* f holds m_next (the only field the search writes), the locals           *)
(* probe_pos, prev_dist, num_probes_left, the in/out pair match_dist,      *)
(* match_len, probes, the count of TDEFL_PROBE executions, and walk, the   *)
(* window indices the search moved probe_pos to, in order.  k is the place *)
(* (0, 1, 2) in the three-fold unrolled TDEFL_PROBE.                       *)
(***************************************************************************)
\* a variant of ProbeLen that compares no bytes
ProbeLenBlind(m_dict, p, q, probe_len, max_match_len) == max_match_len

\* line 510: the number of equal leading bytes, at most max_match_len
RECURSIVE ProbeLen(_, _, _, _, _)
ProbeLen(m_dict, p, q, probe_len, max_match_len) ==
  IF probe_len < max_match_len /\ m_dict[p + probe_len] = m_dict[q + probe_len]
  THEN ProbeLen(m_dict, p, q, probe_len + 1, max_match_len)
  ELSE probe_len

RECURSIVE FindProbe(_, _, _, _, _, _)
RECURSIVE FindCompare(_, _, _, _, _)

\* a variant of FindProbe whose TDEFL_PROBE does not compare dist with prev_dist
FindProbeAnyOrder(m_dict, pos, max_dist, max_match_len, f, k) ==
  IF k = 0 /\ f.num_probes_left = 0 THEN f
  ELSE
    LET f0 == [f EXCEPT !.num_probes_left = IF k = 0 THEN @ - 1 ELSE @,
                        !.probes = @ + 1]
        next_probe_pos == f.m_next[f.probe_pos]
        dist == AndMask(pos - next_probe_pos, LZ_DICT_SIZE_MASK)
        c0 == m_dict[pos + f.match_len]
        c1 == m_dict[pos + f.match_len - 1]
    IN  IF Int16Negative(next_probe_pos) THEN f0
        ELSE IF dist > max_dist
             THEN [f0 EXCEPT !.m_next[f.probe_pos] = 65535]
             ELSE LET f1 == [f0 EXCEPT !.prev_dist = dist,
                                       !.probe_pos = next_probe_pos,
                                       !.walk = Append(@, next_probe_pos)]
                  IN  IF m_dict[next_probe_pos + f.match_len] = c0
                         /\ m_dict[next_probe_pos + f.match_len - 1] = c1
                      THEN FindCompare(m_dict, pos, max_dist, max_match_len, f1)
                      ELSE FindProbe(m_dict, pos, max_dist, max_match_len, f1,
                                     (k + 1) % 3)

FindProbe(m_dict, pos, max_dist, max_match_len, f, k) ==
  IF k = 0 /\ f.num_probes_left = 0 THEN f
  ELSE
    LET f0 == [f EXCEPT !.num_probes_left = IF k = 0 THEN @ - 1 ELSE @,
                        !.probes = @ + 1]
        next_probe_pos == f.m_next[f.probe_pos]
        dist == AndMask(pos - next_probe_pos, LZ_DICT_SIZE_MASK)
        c0 == m_dict[pos + f.match_len]
        c1 == m_dict[pos + f.match_len - 1]
    IN  IF Int16Negative(next_probe_pos) THEN f0
        ELSE IF dist > max_dist \/ dist <= f.prev_dist
             THEN [f0 EXCEPT !.m_next[f.probe_pos] = 65535]
             ELSE LET f1 == [f0 EXCEPT !.prev_dist = dist,
                                       !.probe_pos = next_probe_pos,
                                       !.walk = Append(@, next_probe_pos)]
                  IN  IF m_dict[next_probe_pos + f.match_len] = c0
                         /\ m_dict[next_probe_pos + f.match_len - 1] = c1
                      THEN FindCompare(m_dict, pos, max_dist, max_match_len, f1)
                      ELSE FindProbe(m_dict, pos, max_dist, max_match_len, f1,
                                     (k + 1) % 3)

FindCompare(m_dict, pos, max_dist, max_match_len, f) ==
  LET probe_len == ProbeLen(m_dict, pos, f.probe_pos, 0, max_match_len)
  IN  IF probe_len > f.match_len
      THEN LET f1 == [f EXCEPT !.match_dist = f.prev_dist, !.match_len = probe_len]
           IN  IF probe_len = max_match_len THEN f1
               ELSE FindProbe(m_dict, pos, max_dist, max_match_len, f1, 0)
      ELSE FindProbe(m_dict, pos, max_dist, max_match_len, f, 0)

\* a variant of find_match that follows no chain
find_match_nothing(s, pos, max_dist, max_match_len, match_dist, match_len) ==
  [s |-> s, match_dist |-> match_dist, match_len |-> match_len, walk |-> << >>]

find_match(s, pos, max_dist, max_match_len, match_dist, match_len) ==
  With([m_next |-> s.m_next, probe_pos |-> pos, prev_dist |-> 0,
        num_probes_left |-> s.m_max_probes,
        match_dist |-> match_dist, match_len |-> match_len, probes |-> 0,
        walk |-> << >>],
       LAMBDA f :
  With(IF max_match_len <= match_len THEN f
       ELSE FindProbe(s.m_dict, pos, max_dist, max_match_len, f, 0),
       LAMBDA r :
    [s |-> [s EXCEPT !.m_next = r.m_next,
                     !.g_probes = Max(@, r.probes),
                     !.g_searches = @ + (IF max_match_len <= match_len THEN 0 ELSE 1),
                     !.g_assert = @ \/ ~(max_match_len <= MAX_MATCH_LEN)],
     match_dist |-> r.match_dist, match_len |-> r.match_len, walk |-> r.walk]))

(***************************************************************************)
(* compressor::compress_data (src/tinydeflate.cpp:519-610).                *)
(***************************************************************************)
RECURSIVE DictFill(_, _, _, _, _)
\* a variant of DictFill that writes no byte into the mirror
DictFillNoMirror(s, bytes, dst_pos, ins_pos, hash) ==
  IF Len(bytes) = 0 THEN s
  ELSE LET c == Head(bytes)
           h == HashRoll(hash, c)
           d1 == [s.m_dict EXCEPT ![dst_pos] = c]
           d2 == d1
       IN  DictFill([s EXCEPT !.m_dict = d2,
                              !.m_next[ins_pos] = s.m_hash[h],
                              !.m_hash[h] = U16(ins_pos),
                              !.g_fed = @ + 1,
                              !.g_inserted = @ \cup {s.g_fed - 2}],
                    Tail(bytes),
                    AndMask(dst_pos + 1, LZ_DICT_SIZE_MASK),
                    AndMask(ins_pos + 1, LZ_DICT_SIZE_MASK), h)

\* lines 537-540: one byte in the loop of the first dictionary update
DictFill(s, bytes, dst_pos, ins_pos, hash) ==
  IF Len(bytes) = 0 THEN s
  ELSE LET c == Head(bytes)
           h == HashRoll(hash, c)
           d1 == [s.m_dict EXCEPT ![dst_pos] = c]
           d2 == IF dst_pos < MAX_MATCH_LEN - 1
                 THEN [d1 EXCEPT ![LZ_DICT_SIZE + dst_pos] = c] ELSE d1
       IN  DictFill([s EXCEPT !.m_dict = d2,
                              !.m_next[ins_pos] = s.m_hash[h],
                              !.m_hash[h] = U16(ins_pos),
                              !.g_fed = @ + 1,
                              !.g_inserted = @ \cup {s.g_fed - 2}],
                    Tail(bytes),
                    AndMask(dst_pos + 1, LZ_DICT_SIZE_MASK),
                    AndMask(ins_pos + 1, LZ_DICT_SIZE_MASK), h)

\* lines 545-556: the byte-at-a-time update used while the lookahead holds
\* fewer than MIN_MATCH_LEN - 1 bytes; the result holds the bytes left
RECURSIVE DictFillSlow(_, _)
DictFillSlow(s, src) ==
  IF ~(Len(src) # 0 /\ s.m_lookahead_size < MAX_MATCH_LEN)
  THEN [s |-> s, src |-> src]
  ELSE LET c == Head(src)
           dst_pos == AndMask(s.m_lookahead_pos + s.m_lookahead_size, LZ_DICT_SIZE_MASK)
           d1 == [s.m_dict EXCEPT ![dst_pos] = c]
           d2 == IF dst_pos < MAX_MATCH_LEN - 1
                 THEN [d1 EXCEPT ![LZ_DICT_SIZE + dst_pos] = c] ELSE d1
           s1 == [s EXCEPT !.m_dict = d2, !.m_lookahead_size = @ + 1,
                           !.g_fed = @ + 1]
           ins_pos == AndMask(dst_pos - 2, LZ_DICT_SIZE_MASK)
           hash == HashTriplet(d2[ins_pos],
                               d2[AndMask(ins_pos + 1, LZ_DICT_SIZE_MASK)], c)
           s2 == IF s1.m_lookahead_size >= MIN_MATCH_LEN
                 THEN [s1 EXCEPT !.m_next[ins_pos] = s1.m_hash[hash],
                                 !.m_hash[hash] = U16(ins_pos),
                                 !.g_inserted = @ \cup {s.g_fed - 2}]
                 ELSE s1
       IN  DictFillSlow(s2, Tail(src))

\* lines 526-557: the dictionary and hash-chain update of one loop round
DictUpdate(s, src) ==
  IF s.m_lookahead_size >= MIN_MATCH_LEN - 1
  THEN LET dst_pos == AndMask(s.m_lookahead_pos + s.m_lookahead_size, LZ_DICT_SIZE_MASK)
           ins_pos == AndMask(dst_pos - 2, LZ_DICT_SIZE_MASK)
           hash == HashStart(s.m_dict[ins_pos],
                             s.m_dict[AndMask(ins_pos + 1, LZ_DICT_SIZE_MASK)])
           num_bytes_to_process == Min(Len(src), MAX_MATCH_LEN - s.m_lookahead_size)
       IN  [s |-> DictFill([s EXCEPT !.m_lookahead_size = @ + num_bytes_to_process],
                           SubSeq(src, 1, num_bytes_to_process),
                           dst_pos, ins_pos, hash),
            src |-> SubSeq(src, num_bytes_to_process + 1, Len(src))]
  ELSE DictFillSlow(s, src)

\* a variant of ParserStep that keeps a saved match unless the new one is
\* longer by two bytes or more
ParserStepKeeps(s) ==
  With(find_match(s, s.m_lookahead_pos, s.m_dict_size, s.m_lookahead_size, 0,
                  IF s.m_saved_match_len # 0 THEN s.m_saved_match_len
                  ELSE MIN_MATCH_LEN - 1),
       LAMBDA fm :
  With(fm.match_len = MIN_MATCH_LEN /\ fm.match_dist >= FAR_MATCH_DIST,
       LAMBDA reject :
  With(IF reject THEN 0 ELSE fm.match_dist, LAMBDA cur_match_dist :
  With(IF reject THEN 0 ELSE fm.match_len, LAMBDA cur_match_len :
  With(fm.s, LAMBDA s0 :
  With(s0.m_dict[s0.m_lookahead_pos], LAMBDA cur_byte :
  \* r = [s, len_to_move]
  With(IF s0.m_saved_match_len # 0
       THEN IF cur_match_len > s0.m_saved_match_len + 1
            THEN With(record_literal(s0, U8(s0.m_saved_lit)), LAMBDA s1 :
                   IF cur_match_len >= LONG_MATCH_LEN
                   THEN [s |-> [record_match(s1, cur_match_len, cur_match_dist)
                                  EXCEPT !.m_saved_match_len = 0],
                         len_to_move |-> cur_match_len]
                   ELSE [s |-> [s1 EXCEPT !.m_saved_lit = cur_byte,
                                          !.m_saved_match_dist = cur_match_dist,
                                          !.m_saved_match_len = cur_match_len],
                         len_to_move |-> 1])
            ELSE [s |-> [record_match(s0, s0.m_saved_match_len, s0.m_saved_match_dist)
                           EXCEPT !.m_saved_match_len = 0],
                  len_to_move |-> s0.m_saved_match_len - 1]
       ELSE IF cur_match_dist = 0
            THEN [s |-> record_literal(s0, cur_byte), len_to_move |-> 1]
            ELSE IF s0.m_greedy_parsing \/ cur_match_len >= LONG_MATCH_LEN
                 THEN [s |-> record_match(s0, cur_match_len, cur_match_dist),
                       len_to_move |-> cur_match_len]
                 ELSE [s |-> [s0 EXCEPT !.m_saved_lit = cur_byte,
                                        !.m_saved_match_dist = cur_match_dist,
                                        !.m_saved_match_len = cur_match_len],
                       len_to_move |-> 1],
       LAMBDA r :
    [r.s EXCEPT
       !.m_lookahead_pos = AndMask(@ + r.len_to_move, LZ_DICT_SIZE_MASK),
       !.g_assert = @ \/ ~(r.s.m_lookahead_size >= r.len_to_move),
       !.m_lookahead_size = @ - r.len_to_move,
       !.m_dict_size = Min(@ + r.len_to_move, LZ_DICT_SIZE),
       !.g_steps = @ + 1,
       !.g_trace = Append(@,
         [saved_len |-> s.m_saved_match_len, saved_dist |-> s.m_saved_match_dist,
          saved_lit |-> s.m_saved_lit, cur_len |-> cur_match_len,
          cur_dist |-> cur_match_dist, cur_byte |-> cur_byte,
          lookahead_size |-> s.m_lookahead_size, dict_size |-> s.m_dict_size,
          tokens |-> Len(s.g_tokens), len_to_move |-> r.len_to_move,
          new_len |-> r.s.m_saved_match_len, new_dist |-> r.s.m_saved_match_dist,
          new_lit |-> r.s.m_saved_lit])])))))))

\* lines 562-600: one step of the lazy/greedy parsing state machine
ParserStep(s) ==
  With(find_match(s, s.m_lookahead_pos, s.m_dict_size, s.m_lookahead_size, 0,
                  IF s.m_saved_match_len # 0 THEN s.m_saved_match_len
                  ELSE MIN_MATCH_LEN - 1),
       LAMBDA fm :
  With(fm.match_len = MIN_MATCH_LEN /\ fm.match_dist >= FAR_MATCH_DIST,
       LAMBDA reject :
  With(IF reject THEN 0 ELSE fm.match_dist, LAMBDA cur_match_dist :
  With(IF reject THEN 0 ELSE fm.match_len, LAMBDA cur_match_len :
  With(fm.s, LAMBDA s0 :
  With(s0.m_dict[s0.m_lookahead_pos], LAMBDA cur_byte :
  \* r = [s, len_to_move]
  With(IF s0.m_saved_match_len # 0
       THEN IF cur_match_len > s0.m_saved_match_len
            THEN With(record_literal(s0, U8(s0.m_saved_lit)), LAMBDA s1 :
                   IF cur_match_len >= LONG_MATCH_LEN
                   THEN [s |-> [record_match(s1, cur_match_len, cur_match_dist)
                                  EXCEPT !.m_saved_match_len = 0],
                         len_to_move |-> cur_match_len]
                   ELSE [s |-> [s1 EXCEPT !.m_saved_lit = cur_byte,
                                          !.m_saved_match_dist = cur_match_dist,
                                          !.m_saved_match_len = cur_match_len],
                         len_to_move |-> 1])
            ELSE [s |-> [record_match(s0, s0.m_saved_match_len, s0.m_saved_match_dist)
                           EXCEPT !.m_saved_match_len = 0],
                  len_to_move |-> s0.m_saved_match_len - 1]
       ELSE IF cur_match_dist = 0
            THEN [s |-> record_literal(s0, cur_byte), len_to_move |-> 1]
            ELSE IF s0.m_greedy_parsing \/ cur_match_len >= LONG_MATCH_LEN
                 THEN [s |-> record_match(s0, cur_match_len, cur_match_dist),
                       len_to_move |-> cur_match_len]
                 ELSE [s |-> [s0 EXCEPT !.m_saved_lit = cur_byte,
                                        !.m_saved_match_dist = cur_match_dist,
                                        !.m_saved_match_len = cur_match_len],
                       len_to_move |-> 1],
       LAMBDA r :
    [r.s EXCEPT
       !.m_lookahead_pos = AndMask(@ + r.len_to_move, LZ_DICT_SIZE_MASK),
       !.g_assert = @ \/ ~(r.s.m_lookahead_size >= r.len_to_move),
       !.m_lookahead_size = @ - r.len_to_move,
       !.m_dict_size = Min(@ + r.len_to_move, LZ_DICT_SIZE),
       !.g_steps = @ + 1,
       !.g_trace = Append(@,
         [saved_len |-> s.m_saved_match_len, saved_dist |-> s.m_saved_match_dist,
          saved_lit |-> s.m_saved_lit, cur_len |-> cur_match_len,
          cur_dist |-> cur_match_dist, cur_byte |-> cur_byte,
          lookahead_size |-> s.m_lookahead_size, dict_size |-> s.m_dict_size,
          tokens |-> Len(s.g_tokens), len_to_move |-> r.len_to_move,
          new_len |-> r.s.m_saved_match_len, new_dist |-> r.s.m_saved_match_dist,
          new_lit |-> r.s.m_saved_lit])])))))))

RECURSIVE CompressLoop(_, _, _)
\* a variant of CompressLoop without line 558, which cuts m_dict_size down
CompressLoopNoCut(s, src, pSrc_null) ==
  IF ~(Len(src) # 0 \/ (pSrc_null /\ s.m_lookahead_size # 0)) THEN s
  ELSE With(DictUpdate(s, src), LAMBDA u :
       With(u.s,
            LAMBDA s1 :
       \* pSrc is advanced once per byte read
       With(pSrc_null /\ Len(u.src) = Len(src), LAMBDA null1 :
         IF ~null1 /\ s1.m_lookahead_size < MAX_MATCH_LEN THEN s1
         ELSE CompressLoop(ParserStep(s1), u.src, null1))))

\* a variant of CompressLoop without line 559: the parser runs on whatever
\* the lookahead holds
CompressLoopEager(s, src, pSrc_null) ==
  IF ~(Len(src) # 0 \/ (pSrc_null /\ s.m_lookahead_size # 0)) THEN s
  ELSE With(DictUpdate(s, src), LAMBDA u :
       With([u.s EXCEPT !.m_dict_size = Min(LZ_DICT_SIZE - u.s.m_lookahead_size, @)],
            LAMBDA s1 :
       \* pSrc is advanced once per byte read
       With(pSrc_null /\ Len(u.src) = Len(src), LAMBDA null1 :
         IF s1.m_lookahead_size = 0 THEN s1
         ELSE CompressLoop(ParserStep(s1), u.src, null1))))

\* lines 523-601: the while loop.  src holds the bytes not yet read,
\* pSrc_null tells whether pSrc is still the null pointer
CompressLoop(s, src, pSrc_null) ==
  IF ~(Len(src) # 0 \/ (pSrc_null /\ s.m_lookahead_size # 0)) THEN s
  ELSE With(DictUpdate(s, src), LAMBDA u :
       With([u.s EXCEPT !.m_dict_size = Min(LZ_DICT_SIZE - u.s.m_lookahead_size, @)],
            LAMBDA s1 :
       \* pSrc is advanced once per byte read
       With(pSrc_null /\ Len(u.src) = Len(src), LAMBDA null1 :
         IF ~null1 /\ s1.m_lookahead_size < MAX_MATCH_LEN THEN s1
         ELSE CompressLoop(ParserStep(s1), u.src, null1))))

\* a variant of PutAdler that writes the least significant byte first
RECURSIVE PutAdlerLow(_, _)
PutAdlerLow(s, i) ==
  IF ~(i < 4) THEN s
  ELSE PutAdlerLow([TDEFL_PUT_BITS(s, AndMask(s.m_adler32.lo, 255), 8)
                      EXCEPT !.m_adler32 =
                               [hi |-> Shr(s.m_adler32.hi, 8),
                                lo |-> U16(Shl(AndMask(s.m_adler32.hi, 255), 8)
                                           + Shr(s.m_adler32.lo, 8))]],
                   i + 1)

\* line 606: the four bytes of m_adler32, most significant first;
\* (m_adler32 >> 24) & 0xFF is the high byte of the high half, and
\* m_adler32 <<= 8 moves the high byte of the low half into the high half
RECURSIVE PutAdler(_, _)
PutAdler(s, i) ==
  IF ~(i < 4) THEN s
  ELSE PutAdler([TDEFL_PUT_BITS(s, AndMask(Shr(s.m_adler32.hi, 8), 255), 8)
                   EXCEPT !.m_adler32 =
                            [hi |-> U16(Shl(s.m_adler32.hi, 8) + Shr(s.m_adler32.lo, 8)),
                             lo |-> U16(Shl(s.m_adler32.lo, 8))]],
                i + 1)

\* a variant of TerminalFlush whose block is not marked as the last
TerminalFlushNotLast(s) ==
  With(flush_block(IF s.m_saved_match_len # 0
                   THEN record_match(s, s.m_saved_match_len, s.m_saved_match_dist)
                   ELSE s,
                   FALSE),
       LAMBDA s2 :
    [flush_output_buffer(IF s2.m_flags.zlib THEN PutAdler(s2, 0) ELSE s2)
       EXCEPT !.m_pStream = FALSE, !.g_flushed = TRUE])

\* a variant of TerminalFlush that leaves m_pStream as it is
TerminalFlushOpen(s) ==
  With(flush_block(IF s.m_saved_match_len # 0
                   THEN record_match(s, s.m_saved_match_len, s.m_saved_match_dist)
                   ELSE s,
                   TRUE),
       LAMBDA s2 :
    [flush_output_buffer(IF s2.m_flags.zlib THEN PutAdler(s2, 0) ELSE s2)
       EXCEPT !.g_flushed = TRUE])

\* lines 602-608: the terminal flush
TerminalFlush(s) ==
  With(flush_block(IF s.m_saved_match_len # 0
                   THEN record_match(s, s.m_saved_match_len, s.m_saved_match_dist)
                   ELSE s,
                   TRUE),
       LAMBDA s2 :
    [flush_output_buffer(IF s2.m_flags.zlib THEN PutAdler(s2, 0) ELSE s2)
       EXCEPT !.m_pStream = FALSE, !.g_flushed = TRUE])

\* pData_null: pData is the null pointer; data: the data_len bytes that
\* reading through pSrc yields.  The result holds the state and the
\* returned value.
compress_data(s, pData_null, data) ==
  IF ~s.m_pStream \/ ~s.m_all_writes_succeeded THEN [s |-> s, ret |-> FALSE]
  ELSE With(CompressLoop(
              [s EXCEPT !.m_adler32 = IF s.m_flags.zlib THEN adler32(data, @) ELSE @,
                        !.g_input = @ \o data],
              data, pData_null),
            LAMBDA s2 :
       With(IF pData_null THEN TerminalFlush(s2) ELSE s2, LAMBDA s3 :
         [s |-> s3, ret |-> s3.m_all_writes_succeeded]))

\* line 616: m_hash is filled with 0xFF bytes unless the flags ask for
\* nondeterministic parsing
memset_m_hash(m_hash, flags) ==
  IF ~flags.nondeterministic THEN [h \in HashDomain |-> 65535] ELSE m_hash

\* a variant of init that leaves m_bits_in and m_bit_buffer as they are
init_keeps_bits(s, flags, failAt) ==
  With([s EXCEPT
               !.m_pStream = TRUE, !.m_flags = flags,
               !.m_max_probes = (AndMask(flags.low, 4095) + 2) \div 3,
               !.m_greedy_parsing = flags.greedy,
               !.m_hash = memset_m_hash(@, flags),
               !.m_lookahead_pos = 0, !.m_lookahead_size = 0, !.m_dict_size = 0,
               !.m_pLZ_code_buf = 1, !.m_pLZ_flags = 0, !.m_num_flags_left = 8,
               !.m_pOutput_buf = 0,
               !.m_all_writes_succeeded = TRUE,
               !.m_saved_match_dist = 0, !.m_saved_match_len = 0, !.m_saved_lit = 0,
               !.m_adler32 = [hi |-> 0, lo |-> 1],
               \* the sink handed in
               !.s_buf = << >>, !.s_lens = << >>, !.s_calls = 0, !.s_failAt = failAt,
               !.s_failed = FALSE, !.s_put_ret = TRUE,
               \* a new session: the history starts over
               !.g_input = << >>, !.g_tokens = << >>, !.g_probes = 0,
               !.g_searches = 0, !.g_steps = 0,
               !.g_bits = 0, !.g_emitted = << >>, !.g_blocks = << >>,
               !.g_flushed = FALSE, !.g_ub = FALSE, !.g_inits = @ + 1,
               !.g_trace = << >>, !.g_fed = 0, !.g_inserted = {},
               !.g_lz_top = 0, !.g_lz_free = LZ_CODE_BUF_SIZE],
       LAMBDA s1 :
  With(IF flags.zlib THEN TDEFL_PUT_BITS(TDEFL_PUT_BITS(s1, 120, 8), 1, 8) ELSE s1,
       LAMBDA s2 :
    [s |-> s2, ret |-> s2.m_all_writes_succeeded]))

(***************************************************************************)
(* compressor::init (src/tinydeflate.cpp:612-623) with a sink that is not  *)
(* null.  failAt configures the sink handed in (see put_buf).  flags is    *)
(* the int passed, by its parts: low holds bits 0..11, the three booleans  *)
(* the bits NONDETERMINISTIC_PARSING_FLAG, GREEDY_PARSING_FLAG and         *)
(* WRITE_ZLIB_HEADER (src/tinydeflate.cpp:23).                             *)
(***************************************************************************)
init(s, flags, failAt) ==
  With([s EXCEPT
               !.m_pStream = TRUE, !.m_flags = flags,
               !.m_max_probes = (AndMask(flags.low, 4095) + 2) \div 3,
               !.m_greedy_parsing = flags.greedy,
               !.m_hash = memset_m_hash(@, flags),
               !.m_lookahead_pos = 0, !.m_lookahead_size = 0, !.m_dict_size = 0,
               !.m_pLZ_code_buf = 1, !.m_pLZ_flags = 0, !.m_num_flags_left = 8,
               !.m_pOutput_buf = 0, !.m_bits_in = 0, !.m_bit_buffer = 0,
               !.m_all_writes_succeeded = TRUE,
               !.m_saved_match_dist = 0, !.m_saved_match_len = 0, !.m_saved_lit = 0,
               !.m_adler32 = [hi |-> 0, lo |-> 1],
               \* the sink handed in
               !.s_buf = << >>, !.s_lens = << >>, !.s_calls = 0, !.s_failAt = failAt,
               !.s_failed = FALSE, !.s_put_ret = TRUE,
               \* a new session: the history starts over
               !.g_input = << >>, !.g_tokens = << >>, !.g_probes = 0,
               !.g_searches = 0, !.g_steps = 0,
               !.g_bits = 0, !.g_emitted = << >>, !.g_blocks = << >>,
               !.g_flushed = FALSE, !.g_ub = FALSE, !.g_inits = @ + 1,
               !.g_trace = << >>, !.g_fed = 0, !.g_inserted = {},
               !.g_lz_top = 0, !.g_lz_free = LZ_CODE_BUF_SIZE],
       LAMBDA s1 :
  With(IF flags.zlib THEN TDEFL_PUT_BITS(TDEFL_PUT_BITS(s1, 120, 8), 1, 8) ELSE s1,
       LAMBDA s2 :
    [s |-> s2, ret |-> s2.m_all_writes_succeeded]))

(***************************************************************************)
(* The state: the compressor object, the sink it writes to, the history of *)
(* the current session, and the last call made with what it returned.      *)
(* The history records, besides the input, the tokens and the blocks:      *)
(* g_trace, one record per step of the parser; g_fed, the number of bytes  *)
(* written into m_dict, and g_inserted, the stream positions (0-based)     *)
(* put into the hash chains; g_lz_top, the highest index of m_lz_code_buf  *)
(* written or reserved, and g_lz_free, the least number of bytes left free *)
(* in it after a record_literal or record_match.                           *)
(***************************************************************************)
VARIABLES comp, stream, hist, call

vars == << comp, stream, hist, call >>

CompFields ==
  {"m_pStream", "m_flags", "m_max_probes", "m_greedy_parsing",
   "m_all_writes_succeeded", "m_adler32", "m_lookahead_pos", "m_lookahead_size",
   "m_dict_size", "m_pLZ_code_buf", "m_pLZ_flags", "m_pOutput_buf",
   "m_num_flags_left", "m_bits_in", "m_bit_buffer", "m_saved_match_dist",
   "m_saved_match_len", "m_saved_lit", "m_dict", "m_lz_code_buf", "m_next",
   "m_hash", "m_output_buf"}
StreamFields == {"s_buf", "s_lens", "s_calls", "s_failAt", "s_failed", "s_put_ret"}
HistFields ==
  {"g_input", "g_tokens", "g_probes", "g_searches", "g_steps", "g_bits",
   "g_emitted", "g_blocks", "g_flushed", "g_ub", "g_inits", "g_assert", "g_oob",
   "g_crashed", "g_total", "g_trace", "g_fed", "g_inserted", "g_lz_top",
   "g_lz_free"}

\* the record the operators above work on, and its parts
State == comp @@ stream @@ hist
Part(s, fields) == [f \in fields |-> s[f]]

\* flags as the caller composes them (src/tinydeflate.cpp:23)
Flags(max_probes, nondeterministic, greedy, zlib) ==
  [low |-> max_probes, nondeterministic |-> nondeterministic, greedy |-> greedy,
   zlib |-> zlib]

(***************************************************************************)
(* The memory a compressor object is constructed in.  The constructor      *)
(* (src/tinydeflate.cpp:106) sets m_pStream and m_all_writes_succeeded     *)
(* only; every other member keeps what the memory held.  Entries of m_next *)
(* and m_hash are window indices or carry the sign bit, as every 16-bit    *)
(* value does in the source, where LZ_DICT_SIZE is 32768.                  *)
(***************************************************************************)
ImageFields == CompFields \ {"m_pStream", "m_all_writes_succeeded"}

\* memory that holds zeros
ZeroImage ==
  [m_flags |-> Flags(0, FALSE, FALSE, FALSE), m_max_probes |-> 0,
   m_greedy_parsing |-> FALSE, m_adler32 |-> [hi |-> 0, lo |-> 0],
   m_lookahead_pos |-> 0, m_lookahead_size |-> 0, m_dict_size |-> 0,
   m_pLZ_code_buf |-> 0, m_pLZ_flags |-> 0, m_pOutput_buf |-> 0,
   m_num_flags_left |-> 0, m_bits_in |-> 0, m_bit_buffer |-> 0,
   m_saved_match_dist |-> 0, m_saved_match_len |-> 0, m_saved_lit |-> 0,
   m_dict |-> [i \in DictIndex |-> 0], m_next |-> [i \in NextIndex |-> 0],
   m_hash |-> [h \in HashDomain |-> 0], m_lz_code_buf |-> [i \in LzIndex |-> 0],
   m_output_buf |-> [i \in OutIndex |-> 0]]
\* memory whose m_hash and m_next chain every window position to the one
\* before it, with other values in the other members
ChainImage ==
  [m_flags |-> Flags(4, TRUE, TRUE, TRUE), m_max_probes |-> 2,
   m_greedy_parsing |-> TRUE, m_adler32 |-> [hi |-> 16, lo |-> 17],
   m_lookahead_pos |-> 5, m_lookahead_size |-> 2, m_dict_size |-> 6,
   m_pLZ_code_buf |-> 3, m_pLZ_flags |-> 2, m_pOutput_buf |-> 1,
   m_num_flags_left |-> 5, m_bits_in |-> 3, m_bit_buffer |-> 5,
   m_saved_match_dist |-> 1, m_saved_match_len |-> 3, m_saved_lit |-> 16,
   m_dict |-> [i \in DictIndex |-> 16],
   m_next |-> [i \in NextIndex |-> (i + LZ_DICT_SIZE - 1) % LZ_DICT_SIZE],
   m_hash |-> [h \in HashDomain |-> LZ_DICT_SIZE - 1],
   m_lz_code_buf |-> [i \in LzIndex |-> 255],
   m_output_buf |-> [i \in OutIndex |-> 255]]

Constructed(image) ==
  image @@ [m_pStream |-> FALSE, m_all_writes_succeeded |-> FALSE]

NoStream ==
  [s_buf |-> << >>, s_lens |-> << >>, s_calls |-> 0, s_failAt |-> 0,
   s_failed |-> FALSE, s_put_ret |-> TRUE]

NoHist ==
  [g_input |-> << >>, g_tokens |-> << >>, g_probes |-> 0, g_searches |-> 0,
   g_steps |-> 0, g_bits |-> 0, g_emitted |-> << >>, g_blocks |-> << >>,
   g_flushed |-> FALSE, g_ub |-> FALSE, g_inits |-> 0, g_assert |-> FALSE,
   g_oob |-> FALSE, g_crashed |-> FALSE, g_total |-> 0, g_trace |-> << >>,
   g_fed |-> 0, g_inserted |-> {}, g_lz_top |-> 0,
   g_lz_free |-> LZ_CODE_BUF_SIZE]

\* memory as an earlier session leaves it: the session below, run in
\* ZeroImage
UsedImage ==
  Part(compress_data(
         compress_data(
           init(Constructed(ZeroImage) @@ NoStream @@ NoHist,
                Flags(4, TRUE, TRUE, FALSE), 0).s,
           FALSE, << 16, 0, 16, 16, 0, 16 >>).s,
         TRUE, << >>).s,
       ImageFields)
MemoryImages == {ZeroImage, ChainImage, UsedImage}

NoCall ==
  [op |-> "none", ret |-> FALSE, open |-> FALSE, flushed |-> FALSE,
   failed |-> FALSE, inits |-> 0, puts |-> 0, delivered |-> 0]

InitImages(images) ==
  /\ comp \in {Constructed(image) : image \in images}
  /\ stream = NoStream
  /\ hist = NoHist
  /\ call = NoCall

Init == InitImages(MemoryImages)

(***************************************************************************)
(* The calls a caller makes on the compressor object.  call records the    *)
(* last one: which, what it returned, and what held when it was made:      *)
(* open (init() has succeeded, no flush and no failed write since),        *)
(* flushed (a terminal flush has returned since the last init()), failed   *)
(* (the sink has rejected a write), inits (init() calls so far), and what  *)
(* the call did to the sink: puts (put_buf calls) and delivered (bytes the *)
(* sink accepted).                                                         *)
(***************************************************************************)
Called(op, ret, s) ==
  [op |-> op, ret |-> ret,
   open |-> comp.m_pStream /\ comp.m_all_writes_succeeded,
   flushed |-> hist.g_flushed, failed |-> stream.s_failed, inits |-> hist.g_inits,
   puts |-> s.s_calls - stream.s_calls,
   delivered |-> Len(s.s_buf) - Len(stream.s_buf)]

\* what a call leaves: the state r.s, and the record of the call
Returns(op, r) ==
  /\ comp' = Part(r.s, CompFields)
  /\ stream' = Part(r.s, StreamFields)
  /\ hist' = Part(r.s, HistFields)
  /\ call' = Called(op, r.ret, r.s)

\* init(pStream, flags) with a sink
CallInit(flags, failAt) ==
  /\ ~hist.g_crashed
  /\ Returns("init", init(State, flags, failAt))

\* init(NULL, flags): line 614 returns false and touches nothing
CallInitNull ==
  /\ ~hist.g_crashed
  /\ call' = Called("init_null", FALSE, State)
  /\ UNCHANGED << comp, stream, hist >>

\* compress_data(pData, data_len) with pData not null, data_len >= 0
CallCompress(data) ==
  /\ ~hist.g_crashed
  /\ Returns("compress", compress_data([State EXCEPT !.g_total = @ + Len(data)],
                                       FALSE, data))

\* compress_data(NULL, 0)
CallFlush ==
  /\ ~hist.g_crashed
  /\ Returns("flush", compress_data(State, TRUE, << >>))

(***************************************************************************)
(* compress_data(NULL, data_len) with data_len > 0.  Line 521 returns      *)
(* false on a session that is not open.  On an open one nothing checks the *)
(* pointer: adler32 (line 522, with WRITE_ZLIB_HEADER) and the dictionary  *)
(* fill (lines 528-557) read data_len bytes through it, which is undefined *)
(* behaviour.  Its outcomes: the process stops at the read, or the reads   *)
(* yield some bytes and the call goes on with them; pSrc is not null after *)
(* the first read, and pData is null at line 602.                          *)
(***************************************************************************)
CallCompressNull(data_len) ==
  /\ ~hist.g_crashed
  /\ IF ~(comp.m_pStream /\ comp.m_all_writes_succeeded)
     THEN Returns("compress_null", [s |-> State, ret |-> FALSE])
     ELSE \/ /\ hist' = [hist EXCEPT !.g_ub = TRUE, !.g_crashed = TRUE]
             /\ call' = Called("compress_null", FALSE, State)
             /\ UNCHANGED << comp, stream >>
          \/ \E data \in [1..data_len -> Byte] :
               Returns("compress_null",
                       compress_data([State EXCEPT !.g_ub = TRUE,
                                                   !.g_total = @ + data_len],
                                     TRUE, data))
(***************************************************************************)
(* The reader of the format: an inflater for RFC 1950/1951 streams, by the *)
(* RFCs and independent of the compressor's tables.  It accepts dynamic    *)
(* blocks (BTYPE = 2), the only kind the compressor writes, and rejects    *)
(* whatever a conformant decoder rejects: a bad zlib header or checksum,   *)
(* an over-subscribed or incomplete code (a single code of one bit is      *)
(* accepted for the literal/length and distance alphabets, as zlib does),  *)
(* a repeat with nothing to repeat, a distance beyond the output produced, *)
(* a symbol with no code, data past the end of the stream.                 *)
(***************************************************************************)
\* bit number n of the byte sequence, least significant bit of a byte first
StreamBit(bytes, n) == (bytes[(n \div 8) + 1] \div (2 ^ (n % 8))) % 2

\* the unsigned value of the len bits at pos, first bit least significant
RECURSIVE BitsLsb(_, _, _)
BitsLsb(bytes, pos, len) ==
  IF len = 0 THEN 0
  ELSE StreamBit(bytes, pos) + 2 * BitsLsb(bytes, pos + 1, len - 1)

\* the value of the len bits at pos read as a Huffman code, first bit most
\* significant
RECURSIVE BitsMsb(_, _, _)
BitsMsb(bytes, pos, len) ==
  IF len = 0 THEN 0
  ELSE StreamBit(bytes, pos) * (2 ^ (len - 1)) + BitsMsb(bytes, pos + 1, len - 1)

\* RFC 1951, 3.2.5: base lengths and extra bits of the length symbols
\* 257..285, base distances and extra bits of the distance symbols 0..29
RfcLengthBase ==
  << 3, 4, 5, 6, 7, 8, 9, 10, 11, 13, 15, 17, 19, 23, 27, 31, 35, 43, 51, 59,
     67, 83, 99, 115, 131, 163, 195, 227, 258 >>
RfcLengthExtra ==
  << 0, 0, 0, 0, 0, 0, 0, 0, 1, 1, 1, 1, 2, 2, 2, 2, 3, 3, 3, 3, 4, 4, 4, 4,
     5, 5, 5, 5, 0 >>
RfcDistBase ==
  << 1, 2, 3, 4, 5, 7, 9, 13, 17, 25, 33, 49, 65, 97, 129, 193, 257, 385, 513,
     769, 1025, 1537, 2049, 3073, 4097, 6145, 8193, 12289, 16385, 24577 >>
RfcDistExtra ==
  << 0, 0, 0, 0, 1, 1, 2, 2, 3, 3, 4, 4, 5, 5, 6, 6, 7, 7, 8, 8, 9, 9, 10, 10,
     11, 11, 12, 12, 13, 13 >>
\* RFC 1951, 3.2.7: the order in which the code length code lengths come
RfcCodeLengthOrder ==
  << 16, 17, 18, 0, 8, 7, 9, 6, 10, 5, 11, 4, 12, 3, 13, 2, 14, 1, 15 >>

\* RFC 1951, 3.2.2: the canonical code of symbol sym under the code lengths
\* lens (a sequence, symbol k at index k + 1): codes of one length are
\* consecutive in symbol order, and the first code of length n follows from
\* the counts of the shorter lengths
RfcCount(lens, n) == Cardinality({k \in 1..Len(lens) : lens[k] = n})
RECURSIVE RfcFirstCode(_, _)
RfcFirstCode(lens, n) ==
  IF n <= 1 THEN 0
  ELSE 2 * (RfcFirstCode(lens, n - 1) + RfcCount(lens, n - 1))
RfcCode(lens, sym) ==
  RfcFirstCode(lens, lens[sym + 1])
  + Cardinality({k \in 1..sym : lens[k] = lens[sym + 1]})

\* the Kraft sum of the codes of length 1..n, in units of 2^-15
RECURSIVE RfcKraft(_, _)
RfcKraft(lens, n) ==
  IF n = 0 THEN 0 ELSE RfcCount(lens, n) * (2 ^ (15 - n)) + RfcKraft(lens, n - 1)

\* a usable code: complete, or (single_ok) one code of one bit, or
\* (none_ok) no code at all
RfcCodeOk(lens, single_ok, none_ok) ==
  LET used == {k \in 1..Len(lens) : lens[k] # 0}
  IN  \/ RfcKraft(lens, 15) = 2 ^ 15
      \/ single_ok /\ Cardinality(used) = 1 /\ \A k \in used : lens[k] = 1
      \/ none_ok /\ used = {}

\* the code table of lens: for every symbol with a code, its length and code
RfcTable(lens) ==
  {<< lens[k], RfcCode(lens, k - 1), k - 1 >> : k \in {j \in 1..Len(lens) : lens[j] # 0}}

\* the symbol whose code stands at pos: << symbol, length >>, or << -1, 0 >>
\* when no code of the table does (or the stream ends first)
RfcDecode(bytes, pos, table) ==
  LET hits == {e \in table : pos + e[1] <= 8 * Len(bytes)
                             /\ BitsMsb(bytes, pos, e[1]) = e[2]}
  IN  IF hits = {} THEN << -1, 0 >>
      ELSE LET e == CHOOSE e \in hits : TRUE IN << e[3], e[1] >>

\* have: the stream holds the n bits at pos
RfcHave(bytes, pos, n) == pos + n <= 8 * Len(bytes)

\* RFC 1951, 3.2.7: one code length symbol.  c = [pos, lens, ok] holds
\* the read position, the code lengths read so far and whether the stream
\* is still well formed; total is HLIT + HDIST
RfcLengthStep(c, bytes, table, total) ==
  LET r == RfcDecode(bytes, c.pos, table)
      sym == r[1]
      p == c.pos + r[2]
      bad == [c EXCEPT !.ok = FALSE]
      \* count copies of val, the count read from nbits extra bits above base
      run(val, base, nbits) ==
        IF ~RfcHave(bytes, p, nbits) THEN bad
        ELSE LET count == base + BitsLsb(bytes, p, nbits)
             IN  IF Len(c.lens) + count > total THEN bad
                 ELSE [pos |-> p + nbits, ok |-> TRUE,
                       lens |-> c.lens \o [i \in 1..count |-> val]]
  IN  IF sym = -1 THEN bad
      ELSE IF sym <= 15 THEN [pos |-> p, lens |-> Append(c.lens, sym), ok |-> TRUE]
      ELSE IF sym = 16
           THEN IF Len(c.lens) = 0 THEN bad ELSE run(c.lens[Len(c.lens)], 3, 2)
      ELSE IF sym = 17 THEN run(0, 3, 3)
      ELSE run(0, 11, 7)

\* n code length symbols from c (split in halves to keep the evaluation
\* shallow)
RECURSIVE RfcLengths(_, _, _, _, _)
RfcLengths(c, bytes, table, total, n) ==
  IF n = 0 \/ ~c.ok \/ ~(Len(c.lens) < total) THEN c
  ELSE IF n = 1 THEN RfcLengthStep(c, bytes, table, total)
       ELSE RfcLengths(RfcLengths(c, bytes, table, total, n \div 2),
                       bytes, table, total, n - (n \div 2))

\* RFC 1951, 3.2.5: one literal/length symbol of a block's data.
\* d = [pos, out, ok, done]: read position, output so far, well-formedness,
\* end of block seen
RfcSymbolStep(d, bytes, lit_table, dist_table) ==
  LET r == RfcDecode(bytes, d.pos, lit_table)
      sym == r[1]
      p == d.pos + r[2]
      bad == [d EXCEPT !.ok = FALSE]
  IN  IF sym = -1 \/ sym > 285 THEN bad
      ELSE IF sym < 256 THEN [d EXCEPT !.pos = p, !.out = Append(@, sym)]
      ELSE IF sym = 256 THEN [d EXCEPT !.pos = p, !.done = TRUE]
      ELSE
        LET lbits == RfcLengthExtra[sym - 256]
            length == RfcLengthBase[sym - 256]
                      + (IF RfcHave(bytes, p, lbits) THEN BitsLsb(bytes, p, lbits) ELSE 0)
            q == p + lbits
            rd == RfcDecode(bytes, q, dist_table)
            dsym == rd[1]
            dbits == IF dsym \in 0..29 THEN RfcDistExtra[dsym + 1] ELSE 0
            q1 == q + rd[2]
            distance == IF dsym \in 0..29 /\ RfcHave(bytes, q1, dbits)
                        THEN RfcDistBase[dsym + 1] + BitsLsb(bytes, q1, dbits)
                        ELSE 0
            have == Len(d.out)
        IN  IF ~RfcHave(bytes, p, lbits) \/ dsym \notin 0..29
               \/ ~RfcHave(bytes, q1, dbits) \/ distance > have
            THEN bad
            ELSE [d EXCEPT
                    !.pos = q1 + dbits,
                    \* byte i of the copy repeats the last "distance" bytes
                    !.out = @ \o [i \in 1..length |->
                                    d.out[have - distance + 1 + ((i - 1) % distance)]]]

\* n symbols of a block's data from d
RECURSIVE RfcSymbols(_, _, _, _, _)
RfcSymbols(d, bytes, lit_table, dist_table, n) ==
  IF n = 0 \/ ~d.ok \/ d.done THEN d
  ELSE IF n = 1 THEN RfcSymbolStep(d, bytes, lit_table, dist_table)
       ELSE RfcSymbols(RfcSymbols(d, bytes, lit_table, dist_table, n \div 2),
                       bytes, lit_table, dist_table, n - (n \div 2))

\* RFC 1951, 3.2.3 and 3.2.7: one block at bit position pos, appended to the
\* output out.  The result tells whether the block is well formed, where it
\* ends, its BFINAL and BTYPE, and the output after it
RfcBlock(bytes, pos, out) ==
  LET bad == [ok |-> FALSE, pos |-> pos, out |-> out, bfinal |-> 0, btype |-> 0,
              first_bit |-> pos]
  IN  IF ~RfcHave(bytes, pos, 17) THEN bad
      ELSE
        LET bfinal == StreamBit(bytes, pos)
            btype == BitsLsb(bytes, pos + 1, 2)
            hlit == 257 + BitsLsb(bytes, pos + 3, 5)
            hdist == 1 + BitsLsb(bytes, pos + 8, 5)
            hclen == 4 + BitsLsb(bytes, pos + 13, 4)
            p0 == pos + 17
        IN  IF btype # 2 \/ hlit > 286 \/ hdist > 30 \/ ~RfcHave(bytes, p0, 3 * hclen)
            THEN bad
            ELSE
              LET cl_lens == [k \in 1..19 |->
                               LET at == {i \in 1..hclen : RfcCodeLengthOrder[i] = k - 1}
                               IN  IF at = {} THEN 0
                                   ELSE BitsLsb(bytes, p0 + 3 * ((CHOOSE i \in at : TRUE) - 1), 3)]
                  cl == cl_lens @@ cl_lens
                  p1 == p0 + 3 * hclen
              IN  IF ~RfcCodeOk(cl, FALSE, FALSE) THEN bad
                  ELSE
                    LET c == RfcLengths([pos |-> p1, lens |-> << >>, ok |-> TRUE], bytes,
                                        RfcTable(cl), hlit + hdist, hlit + hdist)
                        lit_lens == SubSeq(c.lens, 1, hlit)
                        dist_lens == SubSeq(c.lens, hlit + 1, hlit + hdist)
                    IN  IF ~c.ok \/ Len(c.lens) # hlit + hdist THEN bad
                        ELSE IF lit_lens[257] = 0
                                \/ ~RfcCodeOk(lit_lens, TRUE, FALSE)
                                \/ ~RfcCodeOk(dist_lens, TRUE, TRUE)
                        THEN bad
                        ELSE
                          LET d == RfcSymbols([pos |-> c.pos, out |-> out, ok |-> TRUE,
                                               done |-> FALSE], bytes,
                                              RfcTable(lit_lens), RfcTable(dist_lens),
                                              8 * Len(bytes))
                          IN  [ok |-> d.ok /\ d.done, pos |-> d.pos, out |-> d.out,
                               bfinal |-> bfinal, btype |-> btype, first_bit |-> pos]

\* the blocks of a deflate stream from bit position pos, at most n of them:
\* b = [ok, done, pos, out, blocks]
RECURSIVE RfcBlocks(_, _, _)
RfcBlocks(b, bytes, n) ==
  IF n = 0 \/ ~b.ok \/ b.done THEN b
  ELSE LET r == RfcBlock(bytes, b.pos, b.out)
       IN  RfcBlocks([ok |-> r.ok, done |-> r.ok /\ r.bfinal = 1, pos |-> r.pos,
                      out |-> r.out,
                      blocks |-> Append(b.blocks,
                                        [bfinal |-> r.bfinal, btype |-> r.btype,
                                         first_bit |-> r.first_bit, end_bit |-> r.pos])],
                     bytes, n - 1)

\* RFC 1950, 8.2: the Adler-32 checksum of data, as its two 16-bit sums
RECURSIVE RfcAdlerS1(_, _)
RfcAdlerS1(data, n) ==
  IF n = 0 THEN 1 ELSE (RfcAdlerS1(data, n - 1) + data[n]) % 65521
RECURSIVE RfcAdlerS2(_, _)
RfcAdlerS2(data, n) ==
  IF n = 0 THEN 0 ELSE (RfcAdlerS2(data, n - 1) + RfcAdlerS1(data, n)) % 65521

\* the most blocks a stream of these many bytes can hold (a block takes more
\* than 17 bits)
RfcMaxBlocks(bytes) == (8 * Len(bytes)) \div 17 + 1

\* RFC 1951: inflate a raw deflate stream.  ok: the stream is a sequence of
\* well-formed blocks, the last and only the last with BFINAL = 1, and
\* nothing follows the last block but the padding of its last byte
RfcInflate(bytes) ==
  LET b == RfcBlocks([ok |-> TRUE, done |-> FALSE, pos |-> 0, out |-> << >>,
                      blocks |-> << >>], bytes, RfcMaxBlocks(bytes))
  IN  [ok |-> b.ok /\ b.done /\ Len(bytes) = (b.pos + 7) \div 8,
       out |-> b.out, blocks |-> b.blocks]

\* RFC 1950: inflate a zlib stream.  ok: a deflate header with no preset
\* dictionary and a valid check, a well-formed deflate stream, and the
\* Adler-32 of the decoded data, most significant byte first, as the last
\* four bytes
RfcZlibInflate(bytes) ==
  IF Len(bytes) < 6 THEN [ok |-> FALSE, out |-> << >>, blocks |-> << >>]
  ELSE
    LET cmf == bytes[1]
        flg == bytes[2]
        b == RfcBlocks([ok |-> TRUE, done |-> FALSE, pos |-> 16, out |-> << >>,
                        blocks |-> << >>], bytes, RfcMaxBlocks(bytes))
        at == (b.pos + 7) \div 8
        s1 == RfcAdlerS1(b.out, Len(b.out))
        s2 == RfcAdlerS2(b.out, Len(b.out))
    IN  [ok |-> /\ cmf % 16 = 8
                /\ cmf \div 16 <= 7
                /\ (cmf * 256 + flg) % 31 = 0
                /\ (flg \div 32) % 2 = 0
                /\ b.ok /\ b.done
                /\ Len(bytes) = at + 4
                /\ bytes[at + 1] = s2 \div 256 /\ bytes[at + 2] = s2 % 256
                /\ bytes[at + 3] = s1 \div 256 /\ bytes[at + 4] = s1 % 256,
         out |-> b.out, blocks |-> b.blocks]

(***************************************************************************)
(* The life of a compressor object: any call in any order, short inputs,   *)
(* sinks that fail at their first, second, ... write or never.             *)
(***************************************************************************)
\* the put_buf call a sink fails at is at most this (0: it never fails)
MaxFailAt == 2
LifeFlags == {Flags(1, FALSE, FALSE, TRUE), Flags(4, TRUE, TRUE, FALSE)}

NextInit ==
  \E flags \in LifeFlags, failAt \in 0..MaxFailAt :
    hist.g_inits < MaxInits /\ CallInit(flags, failAt)
\* the chunks handed to compress_data: none, or LifeChunk equal bytes
LifeChunk == 3
LifeChunks == {<< >>} \cup {[i \in 1..LifeChunk |-> b] : b \in Byte}
NextCompress ==
  \E data \in LifeChunks :
    hist.g_total + Len(data) <= MaxLifeInput /\ CallCompress(data)
NextCompressNull ==
  \E data_len \in 1..MaxChunk :
    hist.g_total + data_len <= MaxLifeInput /\ CallCompressNull(data_len)

Next ==
  \/ NextInit
  \/ CallInitNull
  \/ NextCompress
  \/ CallFlush
  \/ NextCompressNull
Spec == InitImages({ZeroImage}) /\ [][Next]_vars

(***************************************************************************)
(* Long inputs: one session per object with a sink that never fails, fed   *)
(* in chunks of LongChunk bytes up to MaxInput bytes, under every kind of  *)
(* flags.                                                                  *)
(***************************************************************************)
LongChunk == 3
LongFlags ==
  {Flags(p, n, g, z) : p \in {0, 1, 4}, n \in BOOLEAN, g \in BOOLEAN, z \in BOOLEAN}

LongInit ==
  \E flags \in LongFlags : hist.g_inits = 0 /\ CallInit(flags, 0)
LongCompress ==
  \E data \in [1..LongChunk -> Byte] :
    /\ comp.m_pStream
    /\ hist.g_total + LongChunk <= MaxInput
    /\ CallCompress(data)
LongFlush == comp.m_pStream /\ CallFlush

NextLong == LongInit \/ LongCompress \/ LongFlush
SpecLong == Init /\ [][NextLong]_vars
(***************************************************************************)
(* Properties.  The values 258 and 32768 of the source are MAX_MATCH_LEN   *)
(* and LZ_DICT_SIZE, which carry smaller values here (see the constants).  *)
(***************************************************************************)
\* what a conformant decoder makes of the bytes the sink holds
Decoded ==
  IF comp.m_flags.zlib THEN RfcZlibInflate(stream.s_buf) ELSE RfcInflate(stream.s_buf)

\* a session ended by compress_data(NULL, 0) whose sink never failed
EndedSession == hist.g_flushed /\ ~stream.s_failed /\ ~hist.g_ub

\* C1: the bytes delivered to the sink by a session that is ended with
\* compress_data(NULL, 0) and whose sink never fails decode, under a
\* conformant DEFLATE/zlib decoder, to exactly the input bytes, whatever the
\* chunks, the flags and the memory the object was constructed in.
C1_RoundTrip ==
  EndedSession => Decoded.ok /\ Decoded.out = hist.g_input

\* an ended session fed in two chunks that emitted two blocks and a match,
\* under nondeterministic parsing with the zlib wrapper
C1_Witness ==
  /\ EndedSession
  /\ Len(hist.g_input) > LongChunk
  /\ Len(hist.g_blocks) >= 2
  /\ \E k \in 1..Len(hist.g_tokens) : hist.g_tokens[k][1] # 0
  /\ comp.m_flags.nondeterministic /\ comp.m_flags.zlib
  /\ Decoded.out = hist.g_input

\* the number of input bytes a token stands for, and the number of input
\* bytes that precede token k
TokenLen(t) == IF t[1] = 0 THEN 1 ELSE t[1]
RECURSIVE TokenPos(_, _)
TokenPos(toks, k) ==
  IF k = 1 THEN 0 ELSE TokenPos(toks, k - 1) + TokenLen(toks[k - 1])

\* C2: every match token (l, d) the parser records has
\* MIN_MATCH_LEN <= l <= MAX_MATCH_LEN, 1 <= d <= LZ_DICT_SIZE, d at most
\* the number of input bytes that precede the match position, and the l
\* input bytes from the match position equal the l bytes d positions
\* earlier; under any flags and any memory contents.
C2_MatchesValid ==
  \A k \in 1..Len(hist.g_tokens) :
    LET l == hist.g_tokens[k][1]
        d == hist.g_tokens[k][2]
        pos == TokenPos(hist.g_tokens, k)
    IN  l # 0 =>
          /\ MIN_MATCH_LEN <= l /\ l <= MAX_MATCH_LEN
          /\ 1 <= d /\ d <= LZ_DICT_SIZE
          /\ d <= pos
          /\ pos + l <= Len(hist.g_input)
          /\ \A i \in 1..l : hist.g_input[pos + i] = hist.g_input[pos + i - d]

\* a match longer than MIN_MATCH_LEN at a distance above 1 recorded by a
\* nondeterministic parser
C2_Witness ==
  /\ comp.m_flags.nondeterministic
  /\ \E k \in 1..Len(hist.g_tokens) :
       /\ hist.g_tokens[k][1] > MIN_MATCH_LEN
       /\ hist.g_tokens[k][2] > 1
       /\ hist.g_tokens[k][2] <= TokenPos(hist.g_tokens, k)

\* the calls of compress_data: with data, the terminal flush, and a null
\* buffer with a nonzero length
CompressOps == {"compress", "flush", "compress_null"}

\* C3: after a terminal flush compress_data(NULL, 0) has returned, every
\* later compress_data call, with any arguments, returns false, calls the
\* sink zero times and delivers nothing, until init() is called again with
\* a sink; and compress_data on a compressor never initialized returns
\* false.
C3_FrozenAfterFlush ==
  (call.op \in CompressOps /\ (call.flushed \/ call.inits = 0)) =>
    ~call.ret /\ call.puts = 0 /\ call.delivered = 0

\* a compress_data call with data made after the terminal flush of a
\* session that delivered bytes
C3_Witness ==
  /\ call.op = "compress" /\ call.flushed /\ call.inits > 0
  /\ Len(stream.s_buf) > 0 /\ ~stream.s_failed
  /\ ~call.ret /\ call.puts = 0

\* C4: once a put_buf call has returned false, put_buf is not called again
\* in that session and nothing more reaches the sink, and the compress_data
\* call in which the failure occurred and every later compress_data call
\* return false.
C4_StickyFailure ==
  /\ stream.s_failed =>
       /\ stream.s_calls = stream.s_failAt
       /\ ~comp.m_all_writes_succeeded
       /\ call.op \in CompressOps => ~call.ret
  /\ (call.op \in CompressOps /\ call.failed) =>
       call.puts = 0 /\ call.delivered = 0

\* a compress_data call with data made after the sink rejected its second
\* write in an earlier compress_data call with data
C4_Witness ==
  /\ call.op = "compress" /\ call.failed /\ ~call.flushed
  /\ stream.s_failed /\ stream.s_calls = 2 /\ Len(stream.s_buf) = OUT_BUF_SIZE
  /\ ~call.ret

\* C5: on an initialized session that has neither been flushed nor seen a
\* failed write, compress_data with a null buffer and a nonzero length
\* returns false, reads nothing through the null pointer and is no terminal
\* flush.
C5_NullBufferRejected ==
  (call.op = "compress_null" /\ call.open) =>
    ~call.ret /\ ~hist.g_ub /\ ~hist.g_crashed /\ ~hist.g_flushed

\* the bytes a session delivers for input under flags when it runs in
\* zeroed memory and is fed the input in one compress_data call
RefOutput(flags, input) ==
  compress_data(
    compress_data(init(Constructed(ZeroImage) @@ NoStream @@ NoHist, flags, 0).s,
                  FALSE, input).s,
    TRUE, << >>).s.s_buf

\* C6: with NONDETERMINISTIC_PARSING_FLAG clear, the bytes delivered to the
\* sink depend only on the input bytes and the flags: whatever the memory
\* of the object held before init() and however the input was cut into
\* chunks, an ended session delivers the bytes of the session that runs in
\* zeroed memory over the same input and flags.
C6_Deterministic ==
  (EndedSession /\ ~comp.m_flags.nondeterministic) =>
    stream.s_buf = RefOutput(comp.m_flags, hist.g_input)

\* an ended session with matches, fed in two chunks, in memory that held
\* other contents (the byte of m_dict the session never wrote is not zero)
C6_Witness ==
  /\ EndedSession /\ ~comp.m_flags.nondeterministic
  /\ comp.m_flags.low > 0
  /\ comp.m_dict[LZ_DICT_SIZE - 1] # 0
  /\ Len(hist.g_input) > LongChunk
  /\ \E k \in 1..Len(hist.g_tokens) : hist.g_tokens[k][1] # 0

\* the last block a session emitted
LastBlock == hist.g_blocks[Len(hist.g_blocks)]

\* C7: in every session ended by a terminal flush each emitted block starts
\* with a BFINAL bit followed by BTYPE = 2 and ends with the literal/length
\* code of symbol 256; BFINAL is 1 for exactly one block, the last one
\* emitted, and every block emitted because the LZ code buffer filled has
\* BFINAL = 0.  (The decoder finds the blocks where flush_block began them,
\* and finds end-of-block where flush_block wrote the code of symbol 256.)
C7_BlockFraming ==
  EndedSession =>
    LET blocks == Decoded.blocks
        n == Len(hist.g_blocks)
    IN  /\ n >= 1 /\ Len(blocks) = n
        /\ \A k \in 1..n :
             /\ blocks[k].first_bit = hist.g_blocks[k].first_bit
             /\ blocks[k].btype = 2
             /\ blocks[k].end_bit = hist.g_blocks[k].eob_bit
             /\ blocks[k].bfinal = (IF k = n THEN 1 ELSE 0)
             /\ hist.g_blocks[k].last_block <=> (k = n)

\* an ended session that emitted a block because the LZ code buffer filled
\* and then its last block, with tokens in both
C7_Witness ==
  /\ EndedSession
  /\ Len(hist.g_blocks) = 2
  /\ ~hist.g_blocks[1].last_block /\ hist.g_blocks[1].tokens > 0
  /\ LastBlock.last_block /\ LastBlock.tokens > 0
  /\ Len(Decoded.blocks) = 2

\* the bits of bytes from bit position from up to the next byte boundary
\* are zero
ZeroPadded(bytes, from) ==
  \A p \in from..(8 * ((from + 7) \div 8) - 1) : StreamBit(bytes, p) = 0

\* C8: with WRITE_ZLIB_HEADER the output of an ended session begins with
\* the bytes 0x78 0x01 and ends with the four bytes of the Adler-32 (initial
\* value 1) of all input bytes, most significant first, on the byte boundary
\* after the zero-padded last block; without the flag the first block
\* starts at the first bit and nothing follows the padded last block.
C8_ZlibFraming ==
  EndedSession =>
    LET bytes == stream.s_buf
        at == (LastBlock.eob_bit + 7) \div 8
        s1 == RfcAdlerS1(hist.g_input, Len(hist.g_input))
        s2 == RfcAdlerS2(hist.g_input, Len(hist.g_input))
    IN  /\ ZeroPadded(bytes, LastBlock.eob_bit)
        /\ IF comp.m_flags.zlib
           THEN /\ Len(bytes) = at + 4
                /\ bytes[1] = 120 /\ bytes[2] = 1
                /\ hist.g_blocks[1].first_bit = 16
                /\ bytes[at + 1] = s2 \div 256 /\ bytes[at + 2] = s2 % 256
                /\ bytes[at + 3] = s1 \div 256 /\ bytes[at + 4] = s1 % 256
           ELSE /\ Len(bytes) = at
                /\ hist.g_blocks[1].first_bit = 0

\* an ended zlib session whose last block ends inside a byte and whose
\* checksum has four different bytes
C8_Witness ==
  /\ EndedSession /\ comp.m_flags.zlib
  /\ LastBlock.eob_bit % 8 # 0
  /\ LET n == Len(stream.s_buf)
     IN  Cardinality({stream.s_buf[n - 3], stream.s_buf[n - 2],
                      stream.s_buf[n - 1], stream.s_buf[n]}) = 4

\* C9: in one find_match call the number of probes, the hash-chain links
\* followed to fetch a candidate position, never exceeds the max-probes
\* value in bits 0..11 of the flags passed to init.  (g_probes is the
\* greatest number of TDEFL_PROBE executions of one find_match call of the
\* session.)
C9_ProbeBudget == hist.g_probes <= comp.m_flags.low

\* what a session has delivered ends at the end of block k: the last
\* delivered byte is the one that holds the last bit of the block
EndsAtBlock(k) ==
  8 * Len(stream.s_buf) \in hist.g_blocks[k].eob_bit..(hist.g_blocks[k].eob_bit + 7)

\* C10, as stated: whenever a sink write fails, the bytes the sink accepted
\* before the failure end at the end of a completely written block, or are
\* the header only, or none.
C10_EndsAtBlockBoundary ==
  stream.s_failed =>
    \/ Len(stream.s_buf) = 0
    \/ comp.m_flags.zlib /\ Len(stream.s_buf) = 2
    \/ \E k \in 1..Len(hist.g_blocks) : EndsAtBlock(k)

\* C10, amended: whenever a sink write fails, the bytes the sink accepted
\* before the failure are the first bytes of what the session emitted, cut
\* where the output buffer was drained: each accepted write held
\* OUT_BUF_SIZE bytes, wherever the blocks end.
C10_EndsAtBufferDrain ==
  stream.s_failed =>
    /\ Len(stream.s_buf) = OUT_BUF_SIZE * (stream.s_calls - 1)
    /\ Len(stream.s_buf) <= Len(hist.g_emitted)
    /\ stream.s_buf = SubSeq(hist.g_emitted, 1, Len(stream.s_buf))

\* a sink that accepted one write and rejected the next, left with bytes
\* that end inside the first block
C10_Witness ==
  /\ stream.s_failed /\ Len(stream.s_buf) = OUT_BUF_SIZE
  /\ Len(hist.g_blocks) >= 1
  /\ hist.g_blocks[1].first_bit < 8 * Len(stream.s_buf)
  /\ 8 * Len(stream.s_buf) < hist.g_blocks[1].eob_bit

(***************************************************************************)
(* optimize_huffman_table on its own: one call per behaviour, on a table   *)
(* and a frequency vector drawn from the vectors a block can tally.  call  *)
(* holds the arguments and, after the call, the code sizes and codes left  *)
(* in m_huff_code_sizes[table_num] and m_huff_codes[table_num].            *)
(***************************************************************************)
\* the three calls of start_dynamic_block (src/tinydeflate.cpp:362, 398):
\* table_num |-> the table's length and its code size limit
HuffTables ==
  [table_num \in 0..2 |->
     [table_len |-> (<< MAX_HUFF_SYMBOLS_0, MAX_HUFF_SYMBOLS_1,
                        MAX_HUFF_SYMBOLS_2 >>)[table_num + 1],
      code_size_limit |-> (<< 15, 15, 7 >>)[table_num + 1]]]

\* the symbols flush_block and start_dynamic_block count: literals, 256 and
\* the length symbols 257..285; the distance symbols 0..29; the code length
\* symbols 0..18
HuffSymbols == << 0..285, 0..29, 0..18 >>
\* a block holds fewer tokens than the LZ code buffer has bytes (24 * 1024
\* in the source), and symbol 256 is counted once; at most 286 + 30 code
\* sizes are packed
HuffMaxTotal == << 24 * 1024, 24 * 1024, 286 + 30 >>

\* the active symbols of the vectors tried: n symbols from the low or the
\* high end of the alphabet.  Table 0 always counts 256 (line 464) and
\* table 2 at least one packed code size; table 1 counts nothing in a block
\* without matches
MaxActive == 20
ActiveSets(table_num, n) ==
  LET syms == HuffSymbols[table_num + 1]
      top == CHOOSE m \in syms : \A k \in syms : k <= m
      forced == IF table_num = 0 THEN {256} ELSE {}
      m == n - Cardinality(forced)
  IN  IF m < 0 \/ (table_num = 2 /\ n = 0) THEN {}
      ELSE {forced \cup (0..(m - 1)), forced \cup ((top - m + 1)..top)}

RECURSIVE Fib(_)
Fib(k) == IF k <= 1 THEN 1 ELSE Fib(k - 1) + Fib(k - 2)
HuffProfiles == {"flat", "fib", "pow", "lin", "big"}
HuffWeight(profile, k) ==
  CASE profile = "flat" -> 1
    [] profile = "fib" -> Fib(k)
    [] profile = "pow" -> 2 ^ k
    [] profile = "lin" -> k + 1
    [] profile = "big" -> 1200 + k

\* the sum of the counts of the symbols lo..hi (split in halves to keep the
\* evaluation shallow)
RECURSIVE SumCount(_, _, _)
SumCount(pSym_count, lo, hi) ==
  IF lo > hi THEN 0
  ELSE IF lo = hi THEN pSym_count[lo]
  ELSE SumCount(pSym_count, lo, (lo + hi) \div 2)
       + SumCount(pSym_count, (lo + hi) \div 2 + 1, hi)

\* the frequency vectors of table table_num: the weights of a profile
\* handed to the active symbols in rising or falling symbol order
HuffCounts(table_num) ==
  LET table_len == HuffTables[table_num].table_len
      vec(active, profile, up) ==
        LET n == Cardinality(active)
            rank(i) == Cardinality({j \in active : j < i})
        IN  Stored([i \in 0..(table_len - 1) |->
                      IF i \in active
                      THEN HuffWeight(profile, IF up THEN rank(i) ELSE n - 1 - rank(i))
                      ELSE 0])
      all == {vec(active, profile, up) :
                active \in UNION {ActiveSets(table_num, n) : n \in 0..MaxActive},
                profile \in HuffProfiles, up \in BOOLEAN}
  IN  {v \in all : SumCount(v, 0, table_len - 1) <= HuffMaxTotal[table_num + 1]}

InitHuff ==
  /\ comp = Constructed(ZeroImage)
  /\ stream = NoStream
  /\ hist = NoHist
  /\ call \in UNION {{[op |-> "none", table_num |-> table_num, pSym_count |-> v] :
                         v \in HuffCounts(table_num)} : table_num \in 0..2}

CallOptimize ==
  /\ call.op = "none"
  /\ call' = With(optimize_huffman_table(call.pSym_count,
                                          HuffTables[call.table_num].table_len,
                                          HuffTables[call.table_num].code_size_limit),
                  LAMBDA t :
                    [op |-> "optimize_huffman_table", table_num |-> call.table_num,
                     pSym_count |-> call.pSym_count, sizes |-> t.sizes,
                     codes |-> t.codes])
  /\ UNCHANGED << comp, stream, hist >>

NextHuff == CallOptimize
SpecHuff == InitHuff /\ [][NextHuff]_vars

\* what the claim speaks of, in a state after the call: the table's length
\* and limit, the active symbols, and the Kraft sum scaled by 2^limit
HuffLen == HuffTables[call.table_num].table_len
HuffCap == HuffTables[call.table_num].code_size_limit
HuffActive == {i \in 0..(HuffLen - 1) : call.pSym_count[i] # 0}
RECURSIVE KraftRange(_, _, _, _)
KraftRange(sizes, lo, hi, cap) ==
  IF lo > hi THEN 0
  ELSE IF lo = hi THEN (IF sizes[lo] \in 1..cap THEN 2 ^ (cap - sizes[lo]) ELSE 0)
  ELSE KraftRange(sizes, lo, (lo + hi) \div 2, cap)
       + KraftRange(sizes, (lo + hi) \div 2 + 1, hi, cap)
KraftScaled(sizes, i, cap) == KraftRange(sizes, 0, i, cap)
HuffSizesInRange ==
  \A i \in 0..(HuffLen - 1) :
    IF i \in HuffActive THEN call.sizes[i] \in 1..HuffCap ELSE call.sizes[i] = 0

\* C11 as stated: active symbols get a code size in 1..cap and the others 0,
\* and the Kraft sum over the active symbols is 1, or at most 1 when a
\* single symbol is active
C11_KraftEquality ==
  call.op = "optimize_huffman_table" =>
    /\ HuffSizesInRange
    /\ IF Cardinality(HuffActive) = 1
       THEN KraftScaled(call.sizes, HuffLen - 1, HuffCap) <= 2 ^ HuffCap
       ELSE KraftScaled(call.sizes, HuffLen - 1, HuffCap) = 2 ^ HuffCap

\* C11, amended: active symbols get a code size in 1..cap and the others 0;
\* the Kraft sum is 1 with two or more active symbols, 1/2 with one (its
\* code size is 1) and 0 with none, which is the distance table of a block
\* without matches
C11_KraftByActive ==
  call.op = "optimize_huffman_table" =>
    /\ HuffSizesInRange
    /\ KraftScaled(call.sizes, HuffLen - 1, HuffCap) =
         (CASE Cardinality(HuffActive) = 0 -> 0
            [] Cardinality(HuffActive) = 1 -> 2 ^ (HuffCap - 1)
            [] OTHER -> 2 ^ HuffCap)

\* the code sizes of the minimum redundancy code, before the limit is
\* enforced, of the call's vector
HuffDepths ==
  With(UsedSyms(call.pSym_count, HuffLen), LAMBDA syms0 :
  With(radix_sort_syms(Cardinality(DOMAIN syms0), syms0), LAMBDA sorted :
    calculate_minimum_redundancy(
      Stored([i \in DOMAIN sorted |-> sorted[i].m_key]), Cardinality(DOMAIN sorted))))

\* the call has limited a code: the code length table, whose minimum
\* redundancy code has sizes above 7
C11_Witness ==
  /\ call.op = "optimize_huffman_table"
  /\ call.table_num = 2
  /\ \E k \in DOMAIN HuffDepths : HuffDepths[k] > HuffCap
  /\ \E i \in HuffActive : call.sizes[i] = HuffCap

(***************************************************************************)
(* Runs of one byte value: one session per object, under every kind of     *)
(* flags, fed copies of one byte in calls of several lengths, up to one    *)
(* byte more than the longest match.                                       *)
(***************************************************************************)
MaxRun == 6
RunLens == {1, MAX_MATCH_LEN - 1, MAX_MATCH_LEN, MAX_MATCH_LEN + 1}

RunInit ==
  \E flags \in LongFlags : hist.g_inits = 0 /\ CallInit(flags, 0)
RunCompress ==
  \E b \in Byte, n \in RunLens :
    /\ comp.m_pStream
    /\ hist.g_total + n <= MaxRun
    /\ \A i \in 1..Len(hist.g_input) : hist.g_input[i] = b
    /\ CallCompress(Repeat(b, n))
RunFlush == comp.m_pStream /\ CallFlush

NextRun == RunInit \/ RunCompress \/ RunFlush
SpecRun == Init /\ [][NextRun]_vars

\* an ended session whose input was n copies of one byte
RunEnded(n) ==
  /\ EndedSession
  /\ Len(hist.g_input) = n
  /\ \A i \in 1..n : hist.g_input[i] = hist.g_input[1]

\* C12 as stated: MAX_MATCH_LEN (258 in the source) copies of one byte and
\* a terminal flush leave a match token of length MAX_MATCH_LEN and
\* distance 1 among the tokens
C12_RunMatchFull ==
  RunEnded(MAX_MATCH_LEN) =>
    \E k \in 1..Len(hist.g_tokens) : hist.g_tokens[k] = << MAX_MATCH_LEN, 1 >>

\* C12, amended: MAX_MATCH_LEN copies of one byte and a terminal flush
\* leave the literal of the first byte and one match of length
\* MAX_MATCH_LEN - 1 and distance 1 when init() was given a probe count of
\* at least 1, and MAX_MATCH_LEN literals when it was given 0; one copy
\* more leaves the literal and a match of length MAX_MATCH_LEN and
\* distance 1
C12_RunMatchAfterLiteral ==
  /\ RunEnded(MAX_MATCH_LEN) =>
       hist.g_tokens =
         IF comp.m_max_probes > 0
         THEN << << 0, hist.g_input[1] >>, << MAX_MATCH_LEN - 1, 1 >> >>
         ELSE Repeat(<< 0, hist.g_input[1] >>, MAX_MATCH_LEN)
  /\ (RunEnded(MAX_MATCH_LEN + 1) /\ comp.m_max_probes > 0) =>
       hist.g_tokens = << << 0, hist.g_input[1] >>, << MAX_MATCH_LEN, 1 >> >>

\* MAX_MATCH_LEN copies, handed over in more than one call, with probes,
\* lazy parsing and whatever the memory held in m_hash
C12_Witness ==
  /\ RunEnded(MAX_MATCH_LEN)
  /\ comp.m_max_probes > 0
  /\ comp.m_flags.nondeterministic /\ ~comp.m_greedy_parsing
  /\ hist.g_steps = 3
  /\ \E k \in 1..Len(hist.g_tokens) : hist.g_tokens[k] = << MAX_MATCH_LEN - 1, 1 >>

\* an ended session with the zlib frame that was given no input byte
EmptyEnded ==
  EndedSession /\ comp.m_flags.zlib /\ hist.g_input = << >>

\* C13 as stated: a zlib-framed session without input that is terminally
\* flushed delivers exactly 7 bytes
C13_EmptyIsSeven == EmptyEnded => Len(stream.s_buf) = 7

\* C13, amended: such a session delivers exactly 18 bytes: the header
\* 78 01, a last dynamic block of 12 bytes that holds the code of symbol
\* 256 only, and the Adler-32 of no input, 00 00 00 01
C13_EmptyIsEighteen ==
  EmptyEnded =>
    stream.s_buf = << 120, 1, 5, 192, 129, 8, 0, 0, 0, 0, 32, 127, 235, 3,
                      0, 0, 0, 1 >>

\* the empty session has ended and the decoder reads its one block, which
\* was delivered in several writes
C13_Witness ==
  /\ EmptyEnded
  /\ Len(stream.s_buf) = 18
  /\ Decoded.ok /\ Decoded.out = << >>
  /\ Len(hist.g_blocks) = 1 /\ hist.g_tokens = << >>
  /\ stream.s_calls > 1

(***************************************************************************)
(* Deep inputs: one session in zeroed memory, lazy or greedy, that is      *)
(* handed every input of up to MaxDeep bytes that begins with a zero byte  *)
(* in one call and then flushed.  The inputs are long enough for matches   *)
(* that take the whole lookahead and for every case of the lazy parser.    *)
(***************************************************************************)
MaxDeep == 10
DeepFlags == {Flags(4, FALSE, FALSE, FALSE), Flags(4, FALSE, TRUE, TRUE)}

DeepInit ==
  \E flags \in DeepFlags : hist.g_inits = 0 /\ CallInit(flags, 0)
DeepCompress ==
  \E n \in 1..MaxDeep : \E data \in [1..n -> Byte] :
    /\ comp.m_pStream
    /\ hist.g_total = 0
    /\ data[1] = 0
    /\ CallCompress(data)
DeepFlush == comp.m_pStream /\ CallFlush

NextDeep == DeepInit \/ DeepCompress \/ DeepFlush
SpecDeep == InitImages({ZeroImage}) /\ [][NextDeep]_vars

\* the tokens recorded by parser step k of the session
StepTokens(k) ==
  SubSeq(hist.g_tokens, hist.g_trace[k].tokens + 1,
         IF k < Len(hist.g_trace) THEN hist.g_trace[k + 1].tokens
         ELSE Len(hist.g_tokens))

\* C14: every step of the parser of a session is one of: a match saved
\* (only without greedy parsing, with a length in MIN_MATCH_LEN up to but
\* not LONG_MATCH_LEN, advancing by 1); with a match (sd, sl) saved, either
\* a longer match was found and the saved literal is recorded, followed by
\* the new match at once if its length is LONG_MATCH_LEN or more
\* (advancing by its length) or by saving the new match (advancing by 1),
\* or the saved match is recorded, the slot cleared and the step advances
\* by sl - 1; with greedy parsing the slot is always empty.  The slot is
\* changed by parser steps only, and is empty when the session has ended.
C14_LazyParser ==
  hist.g_inits > 0 =>
    /\ \A k \in 1..Len(hist.g_trace) :
         LET t == hist.g_trace[k]
             saves == t.new_len # 0
             new_match == << t.cur_len, t.cur_dist >>
         IN  /\ comp.m_greedy_parsing => t.saved_len = 0 /\ t.new_len = 0
             /\ t.saved_len = IF k = 1 THEN 0 ELSE hist.g_trace[k - 1].new_len
             /\ saves =>
                  /\ ~comp.m_greedy_parsing
                  /\ t.new_len = t.cur_len /\ t.new_dist = t.cur_dist
                  /\ t.new_lit = t.cur_byte
                  /\ MIN_MATCH_LEN <= t.cur_len /\ t.cur_len < LONG_MATCH_LEN
                  /\ t.cur_dist >= 1
                  /\ t.len_to_move = 1
             /\ t.saved_len # 0 =>
                  IF t.cur_len > t.saved_len
                  THEN IF t.cur_len >= LONG_MATCH_LEN
                       THEN /\ StepTokens(k) = << << 0, t.saved_lit >>, new_match >>
                            /\ ~saves /\ t.len_to_move = t.cur_len
                       ELSE /\ StepTokens(k) = << << 0, t.saved_lit >> >>
                            /\ saves
                  ELSE /\ StepTokens(k) = << << t.saved_len, t.saved_dist >> >>
                       /\ ~saves /\ t.len_to_move = t.saved_len - 1
             /\ (t.saved_len = 0 /\ ~saves) =>
                  /\ t.len_to_move = IF t.cur_dist = 0 THEN 1 ELSE t.cur_len
                  /\ StepTokens(k) = IF t.cur_dist = 0 THEN << << 0, t.cur_byte >> >>
                                     ELSE << new_match >>
                  /\ t.cur_dist # 0 =>
                       comp.m_greedy_parsing \/ t.cur_len >= LONG_MATCH_LEN
    /\ comp.m_saved_match_len =
         IF hist.g_trace = << >> THEN 0
         ELSE hist.g_trace[Len(hist.g_trace)].new_len
    /\ EndedSession => comp.m_saved_match_len = 0

\* a session in which the parser has saved a match, replaced it by a longer
\* one after recording the saved literal, and recorded a saved match
C14_Witness ==
  /\ EndedSession
  /\ \E k \in 1..Len(hist.g_trace) :
       LET t == hist.g_trace[k]
       IN  /\ t.saved_len # 0 /\ t.cur_len > t.saved_len
           /\ t.cur_len < LONG_MATCH_LEN
           /\ StepTokens(k) = << << 0, t.saved_lit >> >>
  /\ \E k \in 1..Len(hist.g_trace) :
       LET t == hist.g_trace[k]
       IN  /\ t.saved_len # 0 /\ t.cur_len <= t.saved_len
           /\ StepTokens(k) = << << t.saved_len, t.saved_dist >> >>

(***************************************************************************)
(* C15: hash-chain insertion is complete.  No stream position whose        *)
(* triplet has been written into the dictionary is skipped: whenever a     *)
(* position has been inserted into the hash chains, every position before  *)
(* it has been inserted too (an insertion may only be pending for the last *)
(* positions, while the lookahead holds fewer than MIN_MATCH_LEN bytes).   *)
(* The slow update of lines 545-556 breaks this: after a match that takes  *)
(* the whole lookahead, the triplets that begin in the last two bytes of   *)
(* the match and end in the bytes written next are never inserted.         *)
(***************************************************************************)
C15_AllInserted ==
  \A i \in hist.g_inserted : \A j \in 0..i : j \in hist.g_inserted

(***************************************************************************)
(* compressor::find_match as a function of its arguments and of the arrays *)
(* it reads (src/tinydeflate.cpp:491-517).  m_next holds whatever earlier  *)
(* sessions, a wrapped window or uninitialized memory left in it: every    *)
(* window position chained to the one FindSteps before it, with one entry  *)
(* replaced by a sentinel or by a link to some other position.  The window *)
(* is all zero (every candidate matches) or holds 16 in the lookahead only *)
(* (candidates further back match nowhere).  compress_data calls the       *)
(* function with max_dist = m_dict_size <= LZ_DICT_SIZE - m_lookahead_size *)
(* and max_match_len = m_lookahead_size, match_len = MIN_MATCH_LEN - 1.    *)
(***************************************************************************)
FindSteps == {0, 1, 2, 5, 15}
FindLinks == {65535, 32768, 3, 12}
FindPositions == {0, 6, 15}
FindMaxDists == {0, 3, LZ_DICT_SIZE - MAX_MATCH_LEN}
FindMaxProbes == {0, 1, 6}
FindLookaheads == {MIN_MATCH_LEN, MAX_MATCH_LEN}

FindNext(step, at, link) ==
  [i \in NextIndex |-> IF i = at THEN link
                       ELSE AndMask(i - step, LZ_DICT_SIZE_MASK)]

\* the dictionary with its mirror, from the bytes of the circular window
FindDict(marked, pos) ==
  [i \in DictIndex |->
     IF marked /\ AndMask(i - pos, LZ_DICT_SIZE_MASK) < MAX_MATCH_LEN
     THEN 16 ELSE 0]

InitFind ==
  /\ comp = Constructed(ZeroImage)
  /\ stream = NoStream
  /\ hist = NoHist
  /\ call \in {[op |-> "none", m_next |-> FindNext(step, at, link),
                m_dict |-> FindDict(marked, pos), pos |-> pos,
                max_dist |-> max_dist, max_match_len |-> max_match_len,
                m_max_probes |-> m_max_probes] :
                 step \in FindSteps, at \in NextIndex, link \in FindLinks,
                 marked \in BOOLEAN, pos \in FindPositions,
                 max_dist \in FindMaxDists, max_match_len \in FindLookaheads,
                 m_max_probes \in FindMaxProbes}

CallFindMatch ==
  /\ call.op = "none"
  /\ call' = With(find_match([State EXCEPT !.m_next = call.m_next,
                                            !.m_dict = call.m_dict,
                                            !.m_max_probes = call.m_max_probes],
                             call.pos, call.max_dist, call.max_match_len,
                             0, MIN_MATCH_LEN - 1),
                  LAMBDA r :
                    [op |-> "find_match", m_next |-> call.m_next,
                     m_dict |-> call.m_dict, pos |-> call.pos,
                     max_dist |-> call.max_dist,
                     max_match_len |-> call.max_match_len,
                     m_max_probes |-> call.m_max_probes,
                     next_after |-> r.s.m_next, match_dist |-> r.match_dist,
                     match_len |-> r.match_len, walk |-> r.walk,
                     probes |-> r.s.g_probes])
  /\ UNCHANGED << comp, stream, hist >>

NextFind == CallFindMatch
SpecFind == InitFind /\ [][NextFind]_vars

\* the circular distance of window index p from the position searched from
FindDist(p) == AndMask(call.pos - p, LZ_DICT_SIZE_MASK)
\* where the walk ended, and the link found there
FindLast == IF Len(call.walk) = 0 THEN call.pos ELSE call.walk[Len(call.walk)]
FindLink == call.m_next[FindLast]

\* C16: chain walk termination.  Whatever m_next holds, a find_match call
\* follows the links from the current position through candidates that are no
\* sentinels and whose circular distances are strictly increasing and within
\* 1..max_dist, so it follows at most max_dist links and ends; it never steps
\* over a sentinel (m_next is then left as it was), and the only write it
\* makes is the sentinel 0xFFFF over the link it stopped at, made only when
\* that link is no sentinel and its distance is beyond max_dist or not
\* greater than the previous one.
C16_ChainWalk ==
  call.op = "find_match" =>
    /\ \A k \in 1..Len(call.walk) :
         /\ call.walk[k] = call.m_next[IF k = 1 THEN call.pos ELSE call.walk[k - 1]]
         /\ ~Int16Negative(call.walk[k])
         /\ FindDist(call.walk[k]) \in 1..call.max_dist
         /\ k > 1 => FindDist(call.walk[k]) > FindDist(call.walk[k - 1])
    /\ Len(call.walk) <= call.max_dist
    /\ Len(call.walk) <= call.probes
    /\ call.next_after \in {call.m_next, [call.m_next EXCEPT ![FindLast] = 65535]}
    /\ Int16Negative(FindLink) => call.next_after = call.m_next
    /\ call.next_after # call.m_next =>
         \/ FindDist(FindLink) > call.max_dist
         \/ FindDist(FindLink) <= (IF Len(call.walk) = 0 THEN 0 ELSE FindDist(FindLast))

\* a search that followed three links and stopped at a fourth that leads
\* back towards the current position, which it replaced by the sentinel
C16_Witness ==
  /\ call.op = "find_match"
  /\ Len(call.walk) >= 3
  /\ ~Int16Negative(FindLink)
  /\ FindDist(FindLink) <= FindDist(FindLast)
  /\ call.next_after = [call.m_next EXCEPT ![FindLast] = 65535]
  /\ call.next_after # call.m_next

RleSizes == {0, 7}
RleLastSizes == {0, 7, 15}
RleRuns == {1, 2, 3, 7, 10, 11, 138, 139}
RleTotals == {257 + 1, 286 + 30}

RleSequence(v, n, total) ==
  [i \in 1..total |-> IF i <= n[1] THEN v[1]
                      ELSE IF i <= n[1] + n[2] THEN v[2]
                      ELSE IF i <= n[1] + n[2] + n[3] THEN v[3]
                      ELSE v[4]]

InitRle ==
  /\ comp = Constructed(ZeroImage)
  /\ stream = NoStream
  /\ hist = NoHist
  /\ call \in {[op |-> "none",
                code_sizes_to_pack |-> RleSequence(<< v1, v2, v3, v4 >>,
                                                   << n1, n2, n3 >>, total)] :
                 v1 \in RleSizes, v2 \in RleSizes, v3 \in RleSizes,
                 v4 \in RleLastSizes, n1 \in RleRuns, n2 \in RleRuns,
                 n3 \in RleRuns, total \in RleTotals}

CallRlePack ==
  /\ call.op = "none"
  /\ call' = With(RlePack(call.code_sizes_to_pack, Len(call.code_sizes_to_pack)),
                  LAMBDA r :
                    [op |-> "RlePack",
                     code_sizes_to_pack |-> call.code_sizes_to_pack,
                     packed_code_sizes |-> r.packed_code_sizes,
                     count |-> r.count])
  /\ UNCHANGED << comp, stream, hist >>

NextRle == CallRlePack
SpecRle == InitRle /\ [][NextRle]_vars

\* RFC 1951, 3.2.7: one symbol of the packed sequence expanded.  w holds idx
\* (0-based, the next entry of packed), out (the code sizes so far), tally
\* (how often each of the 19 symbols occurred) and ok (every repeat count is
\* in the range of its symbol, and 16 had a nonzero size before it).
RleExpandStep(w, packed) ==
  LET code == packed[w.idx + 1]
      extra == IF w.idx + 2 <= Len(packed) THEN packed[w.idx + 2] ELSE 0 - 1
      last == IF Len(w.out) = 0 THEN 0 ELSE w.out[Len(w.out)]
      w1 == [w EXCEPT !.tally[code] = @ + 1]
  IN  IF code <= 15
      THEN [w1 EXCEPT !.idx = @ + 1, !.out = Append(@, code)]
      ELSE IF code = 16
      THEN [w1 EXCEPT !.idx = @ + 2, !.out = @ \o Repeat(last, 3 + extra),
                      !.ok = @ /\ extra \in 0..3 /\ last # 0]
      ELSE IF code = 17
      THEN [w1 EXCEPT !.idx = @ + 2, !.out = @ \o Repeat(0, 3 + extra),
                      !.ok = @ /\ extra \in 0..7]
      ELSE [w1 EXCEPT !.idx = @ + 2, !.out = @ \o Repeat(0, 11 + extra),
                      !.ok = @ /\ extra \in 0..127 /\ code = 18]

RECURSIVE RleExpandLoop(_, _, _)
RleExpandLoop(w, packed, n) ==
  IF n = 0 \/ ~(w.idx < Len(packed)) THEN w
  ELSE IF n = 1 THEN RleExpandStep(w, packed)
       ELSE RleExpandLoop(RleExpandLoop(w, packed, n \div 2), packed,
                          n - (n \div 2))

RleExpand(packed) ==
  RleExpandLoop([idx |-> 0, out |-> << >>, ok |-> TRUE,
                 tally |-> [i \in 0..(MAX_HUFF_SYMBOLS_2 - 1) |-> 0]],
                packed, Len(packed))

\* C18: code-length RLE round trip.  The packed sequence, expanded by the
\* rules of RFC 1951 (0..15 a size, 16 the previous size 3..6 times, 17 3..10
\* zeros, 18 11..138 zeros), is the sequence that was packed; every 16 has a
\* nonzero size before it, every repeat count is in the range of its symbol,
\* and the frequencies tallied in m_huff_count[2] are the numbers of
\* occurrences of the symbols in the packed sequence.
C18_RleRoundTrip ==
  call.op = "RlePack" =>
    With(RleExpand(call.packed_code_sizes), LAMBDA w :
      /\ w.idx = Len(call.packed_code_sizes)
      /\ w.ok
      /\ w.out = call.code_sizes_to_pack
      /\ w.tally = call.count)

\* a packed sequence with all three repeat symbols and sizes sent as they
\* are, among them 18 with its largest count and 16 with its largest
C18_Witness ==
  /\ call.op = "RlePack"
  /\ \A c \in {0, 7, 16, 17, 18} : call.count[c] > 0
  /\ \E i \in 1..(Len(call.packed_code_sizes) - 3) :
       /\ call.packed_code_sizes[i] = 18 /\ call.packed_code_sizes[i + 1] = 127
       /\ call.packed_code_sizes[i + 2] = 0
  /\ \E i \in 2..(Len(call.packed_code_sizes) - 1) :
       /\ call.packed_code_sizes[i - 1] = 7
       /\ call.packed_code_sizes[i] = 16 /\ call.packed_code_sizes[i + 1] = 3
  /\ RleExpand(call.packed_code_sizes).out = call.code_sizes_to_pack

(***************************************************************************)
(* Inputs longer than the window: one session in zeroed memory, lazy or    *)
(* greedy, fed runs of one byte value in calls of WrapLens bytes, up to    *)
(* MaxWrap bytes, so that the window wraps, the first window indices are   *)
(* written a second time and the dictionary is as large as it can get.     *)
(***************************************************************************)
MaxWrap == 25
WrapLens == {7, 9}

WrapInit ==
  \E flags \in DeepFlags : hist.g_inits = 0 /\ CallInit(flags, 0)
WrapCompress ==
  \E b \in Byte, n \in WrapLens :
    /\ comp.m_pStream
    /\ hist.g_total + n <= MaxWrap
    /\ CallCompress(Repeat(b, n))
WrapFlush == comp.m_pStream /\ CallFlush

NextWrap == WrapInit \/ WrapCompress \/ WrapFlush
SpecWrap == InitImages({ZeroImage}) /\ [][NextWrap]_vars

\* C19: dictionary mirror.  In a session, every window index below
\* MAX_MATCH_LEN - 1 that has been written holds the same byte at
\* LZ_DICT_SIZE + index; a read of up to MAX_MATCH_LEN bytes from any window
\* index stays inside m_dict; and read from the window index of any of the
\* last LZ_DICT_SIZE stream positions, it yields the bytes of the stream
\* from that position on, in order, as far as they have been written.
C19_DictMirror ==
  hist.g_inits > 0 =>
    /\ hist.g_fed = Len(hist.g_input)
    /\ \A i \in 0..(MAX_MATCH_LEN - 2) :
         i < hist.g_fed => comp.m_dict[LZ_DICT_SIZE + i] = comp.m_dict[i]
    /\ \A w \in 0..(LZ_DICT_SIZE - 1) : \A k \in 0..(MAX_MATCH_LEN - 1) :
         w + k \in DOMAIN comp.m_dict
    /\ \A p \in Max(0, hist.g_fed - LZ_DICT_SIZE)..(hist.g_fed - 1) :
         \A k \in 0..(MAX_MATCH_LEN - 1) :
           p + k < hist.g_fed =>
             comp.m_dict[AndMask(p, LZ_DICT_SIZE_MASK) + k] = hist.g_input[p + k + 1]

\* the window has wrapped: its first index holds a byte written after
\* LZ_DICT_SIZE others, which differs from the first byte of the stream; so
\* does the mirror, and a match that begins in the last bytes of the window
\* and runs on into its first ones has been found
C19_Witness ==
  /\ hist.g_inits > 0
  /\ hist.g_fed >= LZ_DICT_SIZE + MAX_MATCH_LEN
  /\ hist.g_input[1] # hist.g_input[LZ_DICT_SIZE + 1]
  /\ comp.m_dict[LZ_DICT_SIZE] = hist.g_input[LZ_DICT_SIZE + 1]
  /\ comp.m_dict[0] = hist.g_input[LZ_DICT_SIZE + 1]
  /\ \E k \in 1..Len(hist.g_tokens) :
       /\ hist.g_tokens[k][1] >= MIN_MATCH_LEN
       /\ TokenPos(hist.g_tokens, k) < LZ_DICT_SIZE
       /\ TokenPos(hist.g_tokens, k) + hist.g_tokens[k][1] > LZ_DICT_SIZE

\* the number of bytes the parser steps before step k have moved over
RECURSIVE StepPos(_)
StepPos(k) == IF k = 1 THEN 0 ELSE StepPos(k - 1) + hist.g_trace[k - 1].len_to_move

\* C20: window accounting.  In every state of a session m_lookahead_size is
\* in 0..MAX_MATCH_LEN and m_dict_size is at most the number of bytes the
\* parser has moved over and at most LZ_DICT_SIZE; at every parser step, when
\* find_match runs, the lookahead holds at least one byte, m_dict_size +
\* m_lookahead_size is at most LZ_DICT_SIZE and m_dict_size at most the bytes
\* moved over so far, and the step moves on by 1..m_lookahead_size bytes; no
\* assertion fails, and a session that has ended has moved over every byte.
C20_WindowAccounting ==
  hist.g_inits > 0 =>
    /\ comp.m_lookahead_size \in 0..MAX_MATCH_LEN
    /\ comp.m_dict_size \in 0..LZ_DICT_SIZE
    /\ comp.m_dict_size <= StepPos(Len(hist.g_trace) + 1)
    /\ StepPos(Len(hist.g_trace) + 1) + comp.m_lookahead_size = hist.g_fed
    /\ ~hist.g_assert
    /\ \A k \in 1..Len(hist.g_trace) :
         /\ hist.g_trace[k].lookahead_size \in 1..MAX_MATCH_LEN
         /\ hist.g_trace[k].dict_size + hist.g_trace[k].lookahead_size <= LZ_DICT_SIZE
         /\ hist.g_trace[k].dict_size <= StepPos(k)
         /\ hist.g_trace[k].len_to_move \in 1..hist.g_trace[k].lookahead_size
    /\ hist.g_flushed => comp.m_lookahead_size = 0

\* an ended session whose window was full (the dictionary cut down to make
\* room for the lookahead) and whose last step committed a saved match that
\* took all that was left of the lookahead, after the last chunk
C20_Witness ==
  /\ EndedSession
  /\ \E k \in 1..Len(hist.g_trace) :
       /\ hist.g_trace[k].dict_size + hist.g_trace[k].lookahead_size = LZ_DICT_SIZE
       /\ hist.g_trace[k].dict_size < StepPos(k)
  /\ LET t == hist.g_trace[Len(hist.g_trace)]
     IN  /\ t.saved_len # 0 /\ t.cur_len <= t.saved_len
         /\ t.len_to_move = t.saved_len - 1
         /\ t.len_to_move = t.lookahead_size
         /\ t.lookahead_size < MAX_MATCH_LEN

(***************************************************************************)
(* Every way of cutting an input into calls: one session, lazy or greedy,  *)
(* with the hash tables cleared by init(), in zeroed memory or in memory   *)
(* that held other values, fed every input of up to MaxSplit bytes that    *)
(* begins with a zero byte in calls of 0..3 bytes (a call of length 0 has  *)
(* a pointer that is not null), and flushed at any point.                  *)
(***************************************************************************)
MaxSplit == 8
ChunkLens == 0..3

ChunkInit ==
  \E flags \in DeepFlags : hist.g_inits = 0 /\ CallInit(flags, 0)
ChunkCompress ==
  \E n \in ChunkLens : \E data \in [1..n -> Byte] :
    /\ comp.m_pStream
    /\ hist.g_total + n <= MaxSplit
    /\ (hist.g_total = 0 /\ n > 0) => data[1] = 0
    /\ CallCompress(data)
ChunkFlush == comp.m_pStream /\ CallFlush

NextChunk == ChunkInit \/ ChunkCompress \/ ChunkFlush
SpecChunk == InitImages({ZeroImage, ChainImage}) /\ [][NextChunk]_vars

\* the session that is handed input in one compress_data call in zeroed
\* memory, before its terminal flush and after it
RefFed(flags, input) ==
  compress_data(init(Constructed(ZeroImage) @@ NoStream @@ NoHist, flags, 0).s,
                FALSE, input).s
RefEnded(flags, input) == compress_data(RefFed(flags, input), TRUE, << >>).s

\* C21: chunking independence.  With the hash tables cleared by init(), a
\* session that has been handed an input in any number of compress_data
\* calls of any lengths, calls of length 0 among them, has recorded the
\* tokens, emitted the blocks (at the same bit positions) and delivered the
\* bytes (in put_buf calls of the same sizes) of the session that was handed
\* the same input in one call; so it has after its terminal flush; and a
\* call of length 0 returns true, records and delivers nothing and is no
\* flush.
C21_ChunkingIndependent ==
  (hist.g_inits > 0 /\ ~comp.m_flags.nondeterministic /\ ~stream.s_failed
     /\ ~hist.g_ub) =>
    With(IF hist.g_flushed THEN RefEnded(comp.m_flags, hist.g_input)
         ELSE RefFed(comp.m_flags, hist.g_input),
         LAMBDA ref :
      /\ hist.g_tokens = ref.g_tokens
      /\ hist.g_blocks = ref.g_blocks
      /\ stream.s_buf = ref.s_buf
      /\ stream.s_lens = ref.s_lens
      /\ comp.m_lookahead_size = ref.m_lookahead_size
      /\ comp.m_saved_match_len = ref.m_saved_match_len
      /\ hist.g_flushed = ref.g_flushed)

\* an ended session that was handed MaxSplit bytes, which takes three calls
\* or more, none of them long enough to fill the lookahead, and recorded a
\* match that the parser found before the terminal flush, in a block that
\* was emitted before the last one
C21_Witness ==
  /\ EndedSession /\ ~comp.m_flags.nondeterministic
  /\ call.op = "flush"
  /\ Len(hist.g_input) = MaxSplit
  /\ Len(hist.g_blocks) >= 2
  /\ \E k \in 1..Len(hist.g_tokens) :
       /\ hist.g_tokens[k][1] >= MIN_MATCH_LEN
       /\ TokenPos(hist.g_tokens, k) + MAX_MATCH_LEN <= Len(hist.g_input)
=============================================================================
